---- MODULE Spec2Model ----
(***************************************************************************)
(* Interval derivation of the aecg package (src/src/aecg/indexing.py):     *)
(* get_aecg_intervals scans the annotation table of one waveform and       *)
(* derives RR, PR, QRS, QT, QTRR and QTCF values, and                      *)
(* get_interval_count_and_avg summarises them per lead and parameter.      *)
(*                                                                         *)
(* Times are whole milliseconds.  A float is a record [nan, v]; NaN is     *)
(* numpy's nan and every arithmetic operation on it yields NaN.            *)
(***************************************************************************)
EXTENDS Integers, Sequences, FiniteSets, TLC

(* ------------------------------ bounds --------------------------------- *)
MaxTime == 4
MaxCrossTime == 3
MaxSpellTime == 3
MaxJPointTime == 3
MaxGrp == 2
MaxTieLen == 2
MaxTieTime == 2
MaxOtherTime == 1
MaxAggLen == 3
MaxAggVal == 2
MaxSessionTime == 2
MaxRelTime == 2
MaxOrigin == 1
MaxScale == 2
MaxDigit == 2
MaxDigits == 2
MaxFiles == 3
MaxStudy == 2
MaxProcesses == 2
MaxLeads == 2
TimeStep == 200

(* --------------------------- program constants ------------------------- *)
RonRefractoryMs == 400
MsPerSecond == 1000

(* ------------------------------- floats -------------------------------- *)
NaN == [nan |-> TRUE, v |-> 0]

F(n) == [nan |-> FALSE, v |-> n]

isnan(x) == x.nan

\* a - b on floats
Sub(a, b) == IF a.nan \/ b.nan THEN NaN ELSE F(a.v - b.v)

\* a > b on floats: every comparison with nan is False
Gt(a, b) == ~a.nan /\ ~b.nan /\ a.v > b.v

\* Largest r with r^3 <= n
RECURSIVE CubeRootFrom(_, _)
CubeRootFrom(n, r) == IF (r + 1) * (r + 1) * (r + 1) > n THEN r ELSE CubeRootFrom(n, r + 1)

\* Variant: without a preceding RR the QT is passed on uncorrected
Fridericia_NoRR(qt, rr) ==
    IF qt.nan THEN NaN
    ELSE IF rr.nan THEN qt
    ELSE F((qt.v * 100) \div CubeRootFrom(MsPerSecond * rr.v, 0))

\* last_qt/(((last_rr)/1000.0)**(1/3)) in whole milliseconds:
\* (rr/1000)^(1/3) = (1000*rr)^(1/3) / 100, taken to two digits.
\* rr <= 0 is a ZeroDivisionError (0.0) or a complex result (negative base).
Fridericia(qt, rr) ==
    IF qt.nan \/ rr.nan THEN NaN
    ELSE F((qt.v * 100) \div CubeRootFrom(MsPerSecond * rr.v, 0))

(* ------------------------------ strings -------------------------------- *)
\* Python orders strings by code point; the strings of the model in order.
StrOrder == << "", "GLOBAL", "II", "MDC_ECG_LEAD_AVR", "MDC_ECG_LEAD_II",
               "MDC_ECG_LEAD_aVR", "PR", "QRS", "QT", "QTCF", "QTRR", "RR", "aVR" >>

StrRank(s) == CHOOSE k \in DOMAIN StrOrder : StrOrder[k] = s

(* ------------------------------- sorting ------------------------------- *)
\* a < b for two tuples of integers of the same length, column by column
RECURSIVE LexLess(_, _)
LexLess(a, b) ==
    IF a = << >> THEN FALSE
    ELSE IF a[1] # b[1] THEN a[1] < b[1]
    ELSE LexLess(Tail(a), Tail(b))

\* Stable insertion of the keyed element x behind every element whose key
\* is not greater than its own.
RECURSIVE InsertStable(_, _)
InsertStable(s, x) ==
    IF s = << >> THEN << x >>
    ELSE IF LexLess(x.key, s[1].key) THEN << x >> \o s
    ELSE << s[1] >> \o InsertStable(Tail(s), x)

\* DataFrame.sort_values on several columns is a stable (lexsort) sort;
\* s is a sequence of [key, row].
RECURSIVE SortStable(_)
SortStable(s) ==
    IF s = << >> THEN << >>
    ELSE InsertStable(SortStable(SubSeq(s, 1, Len(s) - 1)), s[Len(s)])

(* ------------------------- annotation tables -------------------------- *)
\* LEADNAM is the display name of the lead, STD_LEADS_DISPLAYNAMES[lead.upper()],
\* and annotations without a lead are the GLOBAL lead (Aecg.anns_to_ms).
DisplayName(lead) ==
    CASE lead = "" -> "GLOBAL"
      [] lead = "MDC_ECG_LEAD_II" -> "II"
      [] lead = "MDC_ECG_LEAD_AVR" -> "aVR"
      [] lead = "MDC_ECG_LEAD_aVR" -> "aVR"

\* One row of the table that Aecg.anns_to_ms returns (the columns that
\* get_aecg_intervals reads); HL7LEADNAM is the lead code of the annotation.
AnnRow(g, lead, anntype, t) ==
    [ANNGRPID |-> g, LEADNAM |-> DisplayName(lead), HL7LEADNAM |-> lead,
     ECGLIBANNTYPE |-> anntype, TIME |-> t]

\* What one time slot of a table can hold: a lead code, a kind and a group
Option(g, lead, anntype) == [ANNGRPID |-> g, lead |-> lead, ECGLIBANNTYPE |-> anntype]

\* The boundaries of the beats of lead II
BeatOptions ==
    {Option(1, "MDC_ECG_LEAD_II", a) :
        a \in {"RPEAK", "PON", "QON", "RON", "QOFF", "TOFF"}}

\* Beats of lead II whose QRS complex ends at a J point or at a QRS offset
JPointOptions ==
    {Option(1, "MDC_ECG_LEAD_II", a) : a \in {"QON", "QOFF", "STJPEAK", "TOFF"}}

\* QRS onsets and T offsets on the GLOBAL lead and on lead II, in several
\* annotation groups
CrossOptions ==
    {Option(g, l, a) : g \in 1..MaxGrp, l \in {"", "MDC_ECG_LEAD_II"}, a \in {"QON", "TOFF"}}

\* R peaks and T offsets on the GLOBAL lead with the QRS onsets on lead II
GlobalBeatOptions ==
    {Option(1, "", "RPEAK"), Option(1, "", "TOFF"), Option(1, "MDC_ECG_LEAD_II", "QON")}

\* Lead aVR under the two spellings of its code that STD_LEADS accepts
SpellingOptions ==
    {Option(1, l, a) : l \in {"MDC_ECG_LEAD_AVR", "MDC_ECG_LEAD_aVR"},
                       a \in {"RPEAK", "QON", "TOFF"}}

\* The rows of the short tables handed over in a series of calls
SessionOptions == {Option(1, l, a) : l \in {"", "MDC_ECG_LEAD_II"}, a \in {"QON", "TOFF"}}

\* Boundaries of lead II that may share their time
TieRows ==
    {AnnRow(1, "MDC_ECG_LEAD_II", a, k * TimeStep) :
        a \in {"RPEAK", "PON", "QON", "RON", "QOFF", "STJPEAK", "TOFF"}, k \in 1..MaxTieTime}

\* Aecg.anns_to_ms keeps its result sorted by ANNGRPID, BEATNUM, LEADNAM, TIME
InputKey(r) == << r.ANNGRPID, StrRank(r.LEADNAM), r.TIME >>

SortAsInput(rows) ==
    LET keyed == SortStable([k \in DOMAIN rows |-> [key |-> InputKey(rows[k]), row |-> rows[k]]])
    IN  [k \in DOMAIN keyed |-> keyed[k].row]

\* The rows of the time slots 1..t of the choice c, one row at most per slot
RECURSIVE SlotRows(_, _)
SlotRows(c, t) ==
    IF t = 0 THEN << >>
    ELSE SlotRows(c, t - 1) \o
         (IF c[t] = {} THEN << >>
          ELSE LET o == CHOOSE x \in c[t] : TRUE
               IN  << AnnRow(o.ANNGRPID, o.lead, o.ECGLIBANNTYPE, t * TimeStep) >>)

\* t is a table with at most one row of Options at each of the times
\* TimeStep, ..., n * TimeStep, in the order anns_to_ms leaves it
SlotTable(t, Options, n) ==
    \E c \in [1..n -> {{}} \cup {{o} : o \in Options}] : t = SortAsInput(SlotRows(c, n))

\* The tables of at most n rows of Rows in the order anns_to_ms leaves them;
\* rows with the same group, lead and time come in either order
RECURSIVE TablesUpTo(_, _)
TablesUpTo(Rows, n) ==
    IF n = 0 THEN {<< >>}
    ELSE LET T == TablesUpTo(Rows, n - 1)
         IN  T \cup {Append(p[1], p[2]) :
                       p \in {q \in T \X Rows :
                                /\ Len(q[1]) = n - 1
                                /\ \/ q[1] = << >>
                                   \/ ~LexLess(InputKey(q[2]), InputKey(q[1][Len(q[1])]))}}

(* ------------------------------ variables ------------------------------ *)
VARIABLES
    anns_df_in_ms,   \* the caller's annotation table (its rows)
    has_columns,     \* FALSE for pd.DataFrame(), the empty table without columns
    given,           \* history: the table as the caller handed it over
    pc,              \* "idle", "loop", "returned", "raised"
    tmp,             \* the working copy with the six interval columns
    idx,             \* position of iterrows in tmp
    preceeding_R, current_R, last_rr, last_pon, last_qon,
    last_qoff, last_toff, last_qt, current_lead,
    intervals,       \* tmp after melt/dropna/sort: the derived intervals
    res,             \* the returned summary
    memo,            \* history: input and summary of the first completed call, and
                     \* whether another table / that table again was handed over since
    call,            \* the arguments of a call of one of the other functions
    local,           \* the local variables of that call while it runs
    ret,             \* what that call returned or raised
    cancel_indexing, \* DirectoryIndexer.cancel_indexing
    studyindex,      \* DirectoryIndexer.studyindex
    pool             \* the state of each task of the Pool of index_directory

vars == << anns_df_in_ms, has_columns, given, pc, tmp, idx, preceeding_R, current_R,
           last_rr, last_pon, last_qon, last_qoff, last_toff, last_qt,
           current_lead, intervals, res, memo, call, local, ret,
           cancel_indexing, studyindex, pool >>

\* What get_aecg_intervals and get_interval_count_and_avg neither read nor write
outside == << call, local, ret, cancel_indexing, studyindex, pool >>

indexer == << cancel_indexing, studyindex, pool >>

\* No DirectoryIndexer is at work
NoIndexer == cancel_indexing = FALSE /\ studyindex = << >> /\ pool = << >>

locals == << preceeding_R, current_R, last_rr, last_pon, last_qon,
             last_qoff, last_toff, last_qt, current_lead >>

(* --------------------------- get_aecg_intervals ------------------------ *)
\* tmp["RR"] = np.nan ... tmp["QTCF"] = np.nan
WithIntervalColumns(r) ==
    [ANNGRPID |-> r.ANNGRPID, LEADNAM |-> r.LEADNAM, HL7LEADNAM |-> r.HL7LEADNAM,
     ECGLIBANNTYPE |-> r.ECGLIBANNTYPE, TIME |-> r.TIME,
     RR |-> NaN, PR |-> NaN, QRS |-> NaN, QT |-> NaN, QTRR |-> NaN, QTCF |-> NaN]

\* tmp.sort_values(by=["LEADNAM", "HL7LEADNAM", "TIME"])
ScanKey(r) == << StrRank(r.LEADNAM), StrRank(r.HL7LEADNAM), r.TIME >>

SortForScan(df) ==
    LET keyed == SortStable([k \in DOMAIN df |-> [key |-> ScanKey(df[k]), row |-> df[k]]])
    IN  [k \in DOMAIN keyed |-> keyed[k].row]

\* The local variables of get_aecg_intervals as one record
Frame ==
    [preceeding_R |-> preceeding_R, current_R |-> current_R, last_rr |-> last_rr,
     last_pon |-> last_pon, last_qon |-> last_qon, last_qoff |-> last_qoff,
     last_toff |-> last_toff, last_qt |-> last_qt, current_lead |-> current_lead,
     tmp |-> tmp, raised |-> FALSE]

\* Variant: a new lead keeps the R peaks of the lead before it
ResetLead_KeepsRPeaks(f, ann) ==
    IF f.current_lead = "" \/ f.current_lead # ann.LEADNAM
    THEN [f EXCEPT !.current_lead = ann.LEADNAM,
                   !.last_pon = NaN, !.last_qon = NaN, !.last_qoff = NaN,
                   !.last_toff = NaN, !.last_qt = NaN]
    ELSE f

\* Reset last observed annotations when starting new lead
ResetLead(f, ann) ==
    IF f.current_lead = "" \/ f.current_lead # ann.LEADNAM
    THEN [f EXCEPT !.current_lead = ann.LEADNAM,
                   !.preceeding_R = NaN, !.current_R = NaN, !.last_rr = NaN,
                   !.last_pon = NaN, !.last_qon = NaN, !.last_qoff = NaN,
                   !.last_toff = NaN, !.last_qt = NaN]
    ELSE f

\* Variant: the RR is taken against the R peak before the previous one
OnRPEAK_StaleRR(f, i, ann) ==
    IF ann.ECGLIBANNTYPE = "RPEAK"
    THEN LET potential_R == F(ann.TIME)
         IN  IF isnan(f.current_R) \/ Gt(potential_R, f.current_R)
             THEN [f EXCEPT !.preceeding_R = f.current_R,
                            !.current_R = potential_R,
                            !.last_rr = Sub(potential_R, f.preceeding_R),
                            !.tmp[i].RR = Sub(potential_R, f.preceeding_R)]
             ELSE f
    ELSE f

\* Variant: an R peak at the time of the current R peak is accepted as well
OnRPEAK_AcceptsTies(f, i, ann) ==
    IF ann.ECGLIBANNTYPE = "RPEAK"
    THEN LET potential_R == F(ann.TIME)
         IN  IF isnan(f.current_R) \/ ~Gt(f.current_R, potential_R)
             THEN [f EXCEPT !.preceeding_R = f.current_R,
                            !.current_R = potential_R,
                            !.last_rr = Sub(potential_R, f.current_R),
                            !.tmp[i].RR = Sub(potential_R, f.current_R)]
             ELSE f
    ELSE f

OnRPEAK(f, i, ann) ==
    IF ann.ECGLIBANNTYPE = "RPEAK"
    THEN LET potential_R == F(ann.TIME)
         IN  IF isnan(f.current_R) \/ Gt(potential_R, f.current_R)
             THEN [f EXCEPT !.preceeding_R = f.current_R,
                            !.current_R = potential_R,
                            !.last_rr = Sub(potential_R, f.current_R),
                            !.tmp[i].RR = Sub(potential_R, f.current_R)]
             ELSE f
    ELSE f

OnPON(f, ann) ==
    IF ann.ECGLIBANNTYPE = "PON" THEN [f EXCEPT !.last_pon = F(ann.TIME)] ELSE f

\* Variant: an R onset exactly RonRefractoryMs after the QRS onset starts a beat
OnQON_RonAtThreshold(f, i, ann) ==
    IF \/ ann.ECGLIBANNTYPE = "QON"
       \/ /\ ann.ECGLIBANNTYPE = "RON"
          /\ \/ isnan(f.last_qon)
             \/ ~Gt(F(RonRefractoryMs), Sub(F(ann.TIME), f.last_qon))
    THEN [f EXCEPT !.last_qon = F(ann.TIME),
                   !.tmp[i].PR = Sub(F(ann.TIME), f.last_pon),
                   !.last_pon = NaN, !.last_qoff = NaN,
                   !.last_toff = NaN, !.last_qt = NaN]
    ELSE f

\* Variant: the PR is taken after the P onset has been cleared
OnQON_ClearedPon(f, i, ann) ==
    IF \/ ann.ECGLIBANNTYPE = "QON"
       \/ /\ ann.ECGLIBANNTYPE = "RON"
          /\ \/ isnan(f.last_qon)
             \/ Gt(Sub(F(ann.TIME), f.last_qon), F(RonRefractoryMs))
    THEN [f EXCEPT !.last_qon = F(ann.TIME),
                   !.tmp[i].PR = Sub(F(ann.TIME), NaN),
                   !.last_pon = NaN, !.last_qoff = NaN,
                   !.last_toff = NaN, !.last_qt = NaN]
    ELSE f

OnQON(f, i, ann) ==
    IF \/ ann.ECGLIBANNTYPE = "QON"
       \/ /\ ann.ECGLIBANNTYPE = "RON"
          /\ \/ isnan(f.last_qon)
             \/ Gt(Sub(F(ann.TIME), f.last_qon), F(RonRefractoryMs))
    THEN [f EXCEPT !.last_qon = F(ann.TIME),
                   !.tmp[i].PR = Sub(F(ann.TIME), f.last_pon),
                   !.last_pon = NaN, !.last_qoff = NaN,
                   !.last_toff = NaN, !.last_qt = NaN]
    ELSE f

OnQOFF(f, i, ann) ==
    IF ann.ECGLIBANNTYPE = "QOFF" \/ ann.ECGLIBANNTYPE = "STJPEAK"
    THEN [f EXCEPT !.last_qoff = F(ann.TIME),
                   !.tmp[i].QRS = Sub(F(ann.TIME), f.last_qon)]
    ELSE f

\* df[...]["TIME"].values: the TIME column of the rows, in their order
TimeColumn(rows) == [k \in DOMAIN rows |-> rows[k].TIME]

\* anns_df_in_ms[(LEADNAM == "GLOBAL") & (ECGLIBANNTYPE == "QON")]["TIME"].values
GlobalQons(df) ==
    TimeColumn(SelectSeq(df, LAMBDA r : r.LEADNAM = "GLOBAL" /\ r.ECGLIBANNTYPE = "QON"))

\* anns_df_in_ms[(ANNGRPID == ann["ANNGRPID"]) & (ECGLIBANNTYPE == "QON")]["TIME"].values
LocalQons(df, ann) ==
    TimeColumn(SelectSeq(df, LAMBDA r : r.ANNGRPID = ann.ANNGRPID /\ r.ECGLIBANNTYPE = "QON"))

\* potential_qts = last_toff - global_qons; potential_qts[potential_qts > 0]
PotentialQts(toff, qons) ==
    SelectSeq([k \in DOMAIN qons |-> toff - qons[k]], LAMBDA d : d > 0)

\* The row whose lead names the re-attributed T offset takes:
\* anns_df_in_ms[(ANNGRPID == ..) & (ECGLIBANNTYPE == "QON") & (TIME == local_qons[0])]
\* (...).values[0]
QonRow(df, ann, t) ==
    SelectSeq(df, LAMBDA r : /\ r.ANNGRPID = ann.ANNGRPID
                             /\ r.ECGLIBANNTYPE = "QON"
                             /\ r.TIME = t)[1]

\* Variant: the first QRS onset of the annotation group is used, however many
\* the group holds
QtFromOtherLead_AnyQon(f, i, ann, df) ==
    LET global_qons == GlobalQons(df)
        local_qons == LocalQons(df, ann)
        toff == ann.TIME
    IN  IF Len(global_qons) > 0
        THEN LET potential_qts == PotentialQts(toff, global_qons)
             IN  IF potential_qts = << >>
                 THEN [f EXCEPT !.raised = TRUE]
                 ELSE [f EXCEPT !.last_qt = F(potential_qts[Len(potential_qts)])]
        ELSE IF ann.LEADNAM = "GLOBAL" /\ Len(local_qons) >= 1 /\ toff - local_qons[1] > 0
             THEN [f EXCEPT !.last_qt = F(toff - local_qons[1]),
                            !.tmp[i].HL7LEADNAM = QonRow(df, ann, local_qons[1]).HL7LEADNAM,
                            !.tmp[i].LEADNAM = QonRow(df, ann, local_qons[1]).LEADNAM]
             ELSE f

\* The QT of a T offset without QRS onset in its own lead (the else branch)
QtFromOtherLead(f, i, ann, df) ==
    LET global_qons == GlobalQons(df)
        local_qons == LocalQons(df, ann)
        toff == ann.TIME
    IN  IF Len(global_qons) > 0
        THEN LET potential_qts == PotentialQts(toff, global_qons)
             IN  IF potential_qts = << >>
                 THEN [f EXCEPT !.raised = TRUE]      \* potential_qts[-1]: IndexError
                 ELSE [f EXCEPT !.last_qt = F(potential_qts[Len(potential_qts)])]
        ELSE IF ann.LEADNAM = "GLOBAL" /\ Len(local_qons) = 1 /\ toff - local_qons[1] > 0
             THEN [f EXCEPT !.last_qt = F(toff - local_qons[1]),
                            !.tmp[i].HL7LEADNAM = QonRow(df, ann, local_qons[1]).HL7LEADNAM,
                            !.tmp[i].LEADNAM = QonRow(df, ann, local_qons[1]).LEADNAM]
             ELSE f

\* Variant: a T offset leaves the P onset and the QRS onset of its beat in place
OnTOFF_KeepsBeat(f, i, ann, df) ==
    IF ann.ECGLIBANNTYPE = "TOFF"
    THEN LET f1 == [f EXCEPT !.last_toff = F(ann.TIME)]
             f2 == IF ~isnan(f1.last_qon)
                   THEN [f1 EXCEPT !.last_qt = Sub(f1.last_toff, f1.last_qon)]
                   ELSE QtFromOtherLead(f1, i, ann, df)
         IN  IF f2.raised THEN f2
             ELSE [f2 EXCEPT !.tmp[i].QT = f2.last_qt,
                             !.tmp[i].QTRR = f2.last_rr,
                             !.tmp[i].QTCF = Fridericia(f2.last_qt, f2.last_rr),
                             !.last_qoff = NaN, !.last_toff = NaN]
    ELSE f

OnTOFF(f, i, ann, df) ==
    IF ann.ECGLIBANNTYPE = "TOFF"
    THEN LET f1 == [f EXCEPT !.last_toff = F(ann.TIME)]
             f2 == IF ~isnan(f1.last_qon)
                   THEN [f1 EXCEPT !.last_qt = Sub(f1.last_toff, f1.last_qon)]
                   ELSE QtFromOtherLead(f1, i, ann, df)
         IN  IF f2.raised THEN f2
             ELSE IF ~isnan(f2.last_rr) /\ f2.last_rr.v <= 0
             THEN [f2 EXCEPT !.tmp[i].QT = f2.last_qt, !.tmp[i].QTRR = f2.last_rr,
                             !.raised = TRUE]           \* float division by zero
             ELSE [f2 EXCEPT !.tmp[i].QT = f2.last_qt,
                             !.tmp[i].QTRR = f2.last_rr,
                             !.tmp[i].QTCF = Fridericia(f2.last_qt, f2.last_rr),
                             !.last_pon = NaN, !.last_qon = NaN,
                             !.last_qoff = NaN, !.last_toff = NaN]
    ELSE f

\* One pass of the body of "for idx, ann in tmp.iterrows()"
ScanRow(f, i, df) ==
    LET ann == f.tmp[i]
    IN  OnTOFF(OnQOFF(OnQON(OnPON(OnRPEAK(ResetLead(f, ann), i, ann), ann), i, ann), i, ann),
               i, ann, df)

(* ---------------------- get_interval_count_and_avg --------------------- *)
\* One row of the long interval table
IntervalRow(leadnam, hl7, t, paramcd, aval, dtype) ==
    [LEADNAM |-> leadnam, HL7LEADNAM |-> hl7, TIME |-> t,
     PARAMCD |-> paramcd, AVAL |-> aval, DTYPE |-> dtype]

GroupOf(r) == << r.LEADNAM, r.HL7LEADNAM, r.PARAMCD >>

GroupKey(g) == << StrRank(g[1]), StrRank(g[2]), StrRank(g[3]) >>

\* The distinct groups of the rows, in order of first appearance
RECURSIVE GroupsOf(_)
GroupsOf(rows) ==
    IF rows = << >> THEN << >>
    ELSE LET before == GroupsOf(SubSeq(rows, 1, Len(rows) - 1))
             g == GroupOf(rows[Len(rows)])
         IN  IF \E k \in DOMAIN before : before[k] = g THEN before ELSE Append(before, g)

\* groupby(["LEADNAM", "HL7LEADNAM", "PARAMCD"]) presents its groups sorted
SortedGroups(rows) ==
    LET gs == GroupsOf(rows)
        keyed == SortStable([k \in DOMAIN gs |-> [key |-> GroupKey(gs[k]), row |-> gs[k]]])
    IN  [k \in DOMAIN keyed |-> keyed[k].row]

RECURSIVE SumAval(_)
SumAval(rows) == IF rows = << >> THEN 0 ELSE rows[1].AVAL.v + SumAval(Tail(rows))

\* The mean of the values of a group as the exact fraction num/den; the mean
\* of no values is nan
Mean(rows) ==
    IF rows = << >> THEN NaN
    ELSE [nan |-> FALSE, num |-> SumAval(rows), den |-> Len(rows)]

\* Variant: no filter, the rows without value are counted as well
ValidRows_All(anns_df) == anns_df

\* anns_df[anns_df.AVAL.notna()]
ValidRows(anns_df) == SelectSeq(anns_df, LAMBDA r : ~isnan(r.AVAL))

\* Variant: the groups are formed before the rows without value are dropped
SummaryGroups_Unfiltered(anns_df) == SortedGroups(anns_df)

\* The groups of anns_df[anns_df.AVAL.notna()].groupby([...])
SummaryGroups(anns_df) == SortedGroups(ValidRows(anns_df))

\* pd.concat([qt_count, qt_avg]), behind anns_df if the intervals are included
CountAndAvgRows(anns_df, include_all_found_intervals) ==
    LET valid == ValidRows(anns_df)
        groups == SummaryGroups(anns_df)
        members(g) == SelectSeq(valid, LAMBDA r : GroupOf(r) = g)
        qt_count == [k \in DOMAIN groups |->
                       IntervalRow(groups[k][1], groups[k][2], NaN, groups[k][3],
                                   F(Len(members(groups[k]))), "COUNT")]
        qt_avg == [k \in DOMAIN groups |->
                       IntervalRow(groups[k][1], groups[k][2], NaN, groups[k][3],
                                   Mean(members(groups[k])), "AVERAGE")]
    IN  IF include_all_found_intervals
        THEN anns_df \o qt_count \o qt_avg
        ELSE qt_count \o qt_avg

Params == << "RR", "PR", "QRS", "QT", "QTRR", "QTCF" >>

\* Variant: a table without rows is summarised as a zero count per parameter
get_interval_count_and_avg_ZeroCounts(anns_df, include_all_found_intervals) ==
    IF Len(anns_df) > 0
    THEN CountAndAvgRows(anns_df, include_all_found_intervals)
    ELSE [k \in DOMAIN Params |-> IntervalRow("", "", NaN, Params[k], F(0), "COUNT")]

get_interval_count_and_avg(anns_df, include_all_found_intervals) ==
    IF Len(anns_df) > 0
    THEN CountAndAvgRows(anns_df, include_all_found_intervals)
    ELSE << >>

(* ------------------- get_aecg_intervals: output shaping ---------------- *)
\* tmp[[...]].melt(id_vars=["LEADNAM", "HL7LEADNAM", "TIME"], value_vars=[...])
Melt(df) ==
    LET n == Len(df)
    IN  [j \in 1..(Len(Params) * n) |->
            LET r == df[((j - 1) % n) + 1]
                p == Params[((j - 1) \div n) + 1]
            IN  IntervalRow(r.LEADNAM, r.HL7LEADNAM, F(r.TIME), p, r[p], "")]

\* .dropna().sort_values(by=["LEADNAM", "TIME"])
ShapeOutput(df) ==
    LET kept == SelectSeq(Melt(df), LAMBDA r : ~isnan(r.AVAL))
        keyed == SortStable([k \in DOMAIN kept |->
                     [key |-> << StrRank(kept[k].LEADNAM), kept[k].TIME.v >>,
                      row |-> kept[k]]])
    IN  [k \in DOMAIN keyed |-> keyed[k].row]

\* The COUNT and AVERAGE rows of a result
SummaryRows(r) == SelectSeq(r, LAMBDA x : x.DTYPE # "")

(* ------------------------------- actions ------------------------------- *)
\* Variant: the local variables keep the values the last call left
Call_KeepsState ==
    /\ pc = "idle"
    /\ tmp' = SortForScan([k \in DOMAIN anns_df_in_ms |-> WithIntervalColumns(anns_df_in_ms[k])])
    /\ idx' = 1
    /\ pc' = "loop"
    /\ UNCHANGED << anns_df_in_ms, has_columns, given, locals, intervals, res, memo >>
    /\ UNCHANGED outside

\* Lines 175-192: the deep copy, the initial values of the local variables,
\* the six interval columns and the sort of the copy.
Call ==
    /\ pc = "idle"
    /\ tmp' = SortForScan([k \in DOMAIN anns_df_in_ms |-> WithIntervalColumns(anns_df_in_ms[k])])
    /\ preceeding_R' = NaN /\ current_R' = NaN /\ last_rr' = NaN
    /\ last_pon' = NaN /\ last_qon' = NaN /\ last_qoff' = NaN
    /\ last_toff' = NaN /\ last_qt' = NaN
    /\ current_lead' = ""
    /\ idx' = 1
    /\ pc' = "loop"
    /\ UNCHANGED << anns_df_in_ms, has_columns, given, intervals, res, memo >>
    /\ UNCHANGED outside

\* Lines 193-286: the loop body for the row at idx; an exception leaves the
\* function with the state as it was when it was raised.
LoopBody ==
    /\ pc = "loop"
    /\ idx <= Len(tmp)
    /\ LET f == ScanRow(Frame, idx, anns_df_in_ms)
       IN  /\ tmp' = f.tmp
           /\ preceeding_R' = f.preceeding_R /\ current_R' = f.current_R
           /\ last_rr' = f.last_rr /\ last_pon' = f.last_pon
           /\ last_qon' = f.last_qon /\ last_qoff' = f.last_qoff
           /\ last_toff' = f.last_toff /\ last_qt' = f.last_qt
           /\ current_lead' = f.current_lead
           /\ pc' = IF f.raised THEN "raised" ELSE "loop"
           /\ idx' = IF f.raised THEN idx ELSE idx + 1
    /\ UNCHANGED << anns_df_in_ms, has_columns, given, intervals, res, memo >>
    /\ UNCHANGED outside

\* Lines 287-298: melt, dropna, sort, summary, return.  Selecting the
\* columns of a table that has none is a KeyError.
Return ==
    /\ pc = "loop"
    /\ idx > Len(tmp)
    /\ IF has_columns
       THEN /\ intervals' = ShapeOutput(tmp)
            /\ \E include_all_found_intervals \in BOOLEAN :
                  res' = get_interval_count_and_avg(intervals', include_all_found_intervals)
            /\ memo' = IF memo = << >>
                       THEN << [input |-> anns_df_in_ms, summary |-> SummaryRows(res'),
                                other |-> FALSE, again |-> FALSE] >>
                       ELSE memo
            /\ pc' = "returned"
       ELSE /\ pc' = "raised"
            /\ UNCHANGED << intervals, res, memo >>
    /\ UNCHANGED << anns_df_in_ms, has_columns, given, tmp, idx, locals >>
    /\ UNCHANGED outside

\* The caller (get_aecg_index_data, once per waveform and per file) hands
\* over the table of the next call: the same table again, the table of the
\* first call, or another short table.
Handover ==
    /\ pc \in {"returned", "raised"}
    /\ \/ anns_df_in_ms' \in {anns_df_in_ms} \cup {memo[k].input : k \in DOMAIN memo}
       \/ SlotTable(anns_df_in_ms', SessionOptions, MaxOtherTime)
    /\ given' = anns_df_in_ms'
    /\ memo' = [k \in DOMAIN memo |->
                  IF anns_df_in_ms' = memo[k].input
                  THEN [memo[k] EXCEPT !.again = memo[k].other]
                  ELSE [memo[k] EXCEPT !.other = TRUE]]
    /\ pc' = "idle"
    /\ UNCHANGED << has_columns, tmp, idx, locals, intervals, res >>
    /\ UNCHANGED outside

\* A direct call of get_interval_count_and_avg on an interval table
Aggregate ==
    /\ pc = "agg"
    /\ \E include_all_found_intervals \in BOOLEAN :
          res' = get_interval_count_and_avg(intervals, include_all_found_intervals)
    /\ pc' = "aggregated"
    /\ UNCHANGED << anns_df_in_ms, has_columns, given, tmp, idx, locals, intervals, memo >>
    /\ UNCHANGED outside

InitLocals ==
    /\ pc = "idle"
    /\ tmp = << >>
    /\ idx = 1
    /\ preceeding_R = NaN /\ current_R = NaN /\ last_rr = NaN
    /\ last_pon = NaN /\ last_qon = NaN /\ last_qoff = NaN
    /\ last_toff = NaN /\ last_qt = NaN
    /\ current_lead = ""
    /\ intervals = << >>
    /\ res = << >>
    /\ memo = << >>
    /\ call = << >> /\ local = << >> /\ ret = << >>
    /\ NoIndexer

\* One call of get_aecg_intervals on a table as anns_to_ms returns it
Init ==
    /\ \/ SlotTable(anns_df_in_ms, BeatOptions, MaxTime)
       \/ SlotTable(anns_df_in_ms, CrossOptions, MaxCrossTime)
       \/ SlotTable(anns_df_in_ms, GlobalBeatOptions, MaxTime)
       \/ SlotTable(anns_df_in_ms, SpellingOptions, MaxSpellTime)
       \/ SlotTable(anns_df_in_ms, JPointOptions, MaxJPointTime)
       \/ anns_df_in_ms \in TablesUpTo(TieRows, MaxTieLen)
    /\ has_columns \in (IF anns_df_in_ms = << >> THEN BOOLEAN ELSE {TRUE})
    /\ given = anns_df_in_ms
    /\ InitLocals

Next == Call \/ LoopBody \/ Return

Spec == Init /\ [][Next]_vars

\* A series of calls of get_aecg_intervals on short tables
InitSession ==
    /\ SlotTable(anns_df_in_ms, SessionOptions, MaxSessionTime)
    /\ has_columns = TRUE
    /\ given = anns_df_in_ms
    /\ InitLocals

NextSession == Call \/ LoopBody \/ Return \/ Handover

SpecSession == InitSession /\ [][NextSession]_vars

\* Interval tables for a direct call of get_interval_count_and_avg
AggRows ==
    {IntervalRow(DisplayName(l), l, F(TimeStep), p, a, "") :
        l \in {"", "MDC_ECG_LEAD_II"}, p \in {"QT", "RR"},
        a \in {NaN} \cup {F(k * TimeStep) : k \in 1..MaxAggVal}}

AggTables == UNION {[1..n -> AggRows] : n \in 0..MaxAggLen}

InitAgg ==
    /\ intervals \in AggTables
    /\ pc = "agg"
    /\ anns_df_in_ms = << >> /\ has_columns = TRUE /\ given = << >>
    /\ tmp = << >> /\ idx = 1
    /\ preceeding_R = NaN /\ current_R = NaN /\ last_rr = NaN
    /\ last_pon = NaN /\ last_qon = NaN /\ last_qoff = NaN
    /\ last_toff = NaN /\ last_qt = NaN
    /\ current_lead = ""
    /\ res = << >>
    /\ memo = << >>
    /\ call = << >> /\ local = << >> /\ ret = << >>
    /\ NoIndexer

NextAgg == Aggregate

SpecAgg == InitAgg /\ [][NextAgg]_vars

TypeOK ==
    pc \in {"idle", "loop", "returned", "raised", "agg", "aggregated", "label", "labelled",
            "parse", "parsed", "project", "projected",
            "convert", "converted",
            "index", "sequential", "pool", "concat", "indexed",
            "read", "opened", "validated", "age", "aged",
            "lead", "named"}

(* ======================= properties of the scan ======================== *)
\* Positions of the rows of kind anntype that the caller's table holds for lead l
RowsOf(l, anntype) ==
    {k \in DOMAIN given : given[k].LEADNAM = l /\ given[k].ECGLIBANNTYPE = anntype}

TimesOf(l, anntype) == {given[k].TIME : k \in RowsOf(l, anntype)}

GivenLeads == {given[k].LEADNAM : k \in DOMAIN given}

\* Positions of the derived intervals of parameter p that carry lead l
Derived(l, p) ==
    {k \in DOMAIN intervals : intervals[k].LEADNAM = l /\ intervals[k].PARAMCD = p}

\* The derived values of parameter p on lead l as (time, value) pairs
DerivedAt(l, p) == {<< intervals[k].TIME.v, intervals[k].AVAL.v >> : k \in Derived(l, p)}

\* The caller's table in the order of the scan
Stream == SortForScan(given)

IsType(k, anntype) == Stream[k].ECGLIBANNTYPE = anntype

SetMax(S) == CHOOSE x \in S : \A y \in S : y <= x

SetMin(S) == CHOOSE x \in S : \A y \in S : x <= y

\* C1: a lead whose R peaks lie at strictly ascending times t1 < ... < tn
\* in the scan yields exactly the RR values t2-t1, ..., tn-t(n-1), each on
\* the row of the later R peak, and no RR for its first R peak.
C1_RRFromAscendingRPeaks ==
    pc = "returned" =>
        \A l \in GivenLeads :
            LET R == TimesOf(l, "RPEAK")
                K == {k \in DOMAIN Stream : Stream[k].LEADNAM = l /\ IsType(k, "RPEAK")}
            IN  (R # {} /\ \A j, k \in K : j < k => Stream[j].TIME < Stream[k].TIME) =>
                    /\ DerivedAt(l, "RR") =
                          {<< t, t - SetMax({u \in R : u < t}) >> : t \in R \ {SetMin(R)}}
                    /\ Cardinality(Derived(l, "RR")) = Cardinality(R) - 1

C1_Witness ==
    /\ pc = "returned"
    /\ \E l \in GivenLeads :
          /\ Cardinality(RowsOf(l, "RPEAK")) = 3
          /\ Cardinality(TimesOf(l, "RPEAK")) = 3
          /\ Cardinality(Derived(l, "RR")) = 2

\* A QRS onset of the lead of row k precedes row k in the scan with no
\* T offset in between: last_qon may be defined when row k is scanned.
LocalQonBefore(k) ==
    \E j \in 1..(k - 1) :
        /\ Stream[j].LEADNAM = Stream[k].LEADNAM
        /\ Stream[j].ECGLIBANNTYPE \in {"QON", "RON"}
        /\ \A m \in (j + 1)..(k - 1) : Stream[m].ECGLIBANNTYPE # "TOFF"

\* Positions of the QRS onsets of the annotation group of row k
GroupQons(k) ==
    {j \in DOMAIN given : /\ given[j].ANNGRPID = Stream[k].ANNGRPID
                          /\ given[j].ECGLIBANNTYPE = "QON"}

\* C2: a lead with the single beat PON < QON < QOFF < TOFF yields
\* PR = QON - PON on the QON row, QRS = QOFF - QON on the QOFF row and
\* QT = TOFF - QON on the TOFF row.
C2_SingleBeatIntervals ==
    pc = "returned" =>
        \A l \in GivenLeads :
            (/\ \A a \in {"PON", "QON", "QOFF", "TOFF"} : Cardinality(RowsOf(l, a)) = 1
             /\ RowsOf(l, "RON") = {} /\ RowsOf(l, "STJPEAK") = {}
             /\ \A j, k \in DOMAIN Stream :
                   (/\ Stream[j].LEADNAM = l /\ Stream[k].LEADNAM = l
                    /\ << Stream[j].ECGLIBANNTYPE, Stream[k].ECGLIBANNTYPE >> \in
                          {<< "PON", "QON" >>, << "QON", "QOFF" >>, << "QOFF", "TOFF" >>})
                   => j < k
             /\ SetMax(TimesOf(l, "PON")) < SetMax(TimesOf(l, "QON"))
             /\ SetMax(TimesOf(l, "QON")) < SetMax(TimesOf(l, "QOFF"))
             /\ SetMax(TimesOf(l, "QOFF")) < SetMax(TimesOf(l, "TOFF")))
            => LET pon == SetMax(TimesOf(l, "PON"))
                   qon == SetMax(TimesOf(l, "QON"))
                   qoff == SetMax(TimesOf(l, "QOFF"))
                   toff == SetMax(TimesOf(l, "TOFF"))
               IN  /\ DerivedAt(l, "PR") = {<< qon, qon - pon >>}
                   /\ Cardinality(Derived(l, "PR")) = 1
                   /\ DerivedAt(l, "QRS") = {<< qoff, qoff - qon >>}
                   /\ Cardinality(Derived(l, "QRS")) = 1
                   /\ << toff, toff - qon >> \in DerivedAt(l, "QT")

C2_Witness ==
    /\ pc = "returned"
    /\ \E l \in GivenLeads :
          /\ \A a \in {"PON", "QON", "QOFF", "TOFF"} : Cardinality(RowsOf(l, a)) = 1
          /\ SetMax(TimesOf(l, "PON")) < SetMax(TimesOf(l, "QON"))
          /\ SetMax(TimesOf(l, "QON")) < SetMax(TimesOf(l, "QOFF"))
          /\ SetMax(TimesOf(l, "QOFF")) < SetMax(TimesOf(l, "TOFF"))
          /\ Derived(l, "PR") # {} /\ Derived(l, "QRS") # {} /\ Derived(l, "QT") # {}

\* C3: a T offset for which no QRS onset can be resolved (none on its lead
\* since the last beat boundary, none on the GLOBAL lead and, for a GLOBAL
\* T offset, not exactly one in its annotation group) gets no QT and no QTCF.
C3_NoQTWithoutQon ==
    pc = "returned" =>
        \A k \in DOMAIN tmp :
            (/\ IsType(k, "TOFF")
             /\ ~LocalQonBefore(k)
             /\ RowsOf("GLOBAL", "QON") = {}
             /\ Stream[k].LEADNAM = "GLOBAL" => Cardinality(GroupQons(k)) # 1)
            => isnan(tmp[k].QT) /\ isnan(tmp[k].QTCF)

\* C4: a T offset at T without QRS onset on its own lead and with GLOBAL QRS
\* onsets before T gets QT = T - (the latest GLOBAL QRS onset before T) and
\* keeps its own lead, whatever the row order of the table.
C4_ClosestPrecedingGlobalQon ==
    pc = "returned" =>
        \A k \in DOMAIN tmp :
            LET before == {q \in TimesOf("GLOBAL", "QON") : q < Stream[k].TIME}
            IN  (IsType(k, "TOFF") /\ ~LocalQonBefore(k) /\ before # {})
                => /\ tmp[k].QT = F(Stream[k].TIME - SetMax(before))
                   /\ tmp[k].LEADNAM = Stream[k].LEADNAM
                   /\ tmp[k].HL7LEADNAM = Stream[k].HL7LEADNAM

\* C5: a GLOBAL T offset at T with no GLOBAL QRS onset in the table: if its
\* annotation group holds exactly one QRS onset q and T - q > 0 then
\* QT = T - q and the row, with the intervals derived from it, carries the
\* lead names of that onset; otherwise the row keeps its lead names and the
\* rule sets no QT (a QT on the row is the one carried over from an earlier
\* GLOBAL T offset).
C5_GroupQonFallback ==
    pc = "returned" =>
        \A k \in DOMAIN tmp :
            (IsType(k, "TOFF") /\ Stream[k].LEADNAM = "GLOBAL" /\ RowsOf("GLOBAL", "QON") = {})
            => LET Q == GroupQons(k)
                   q == given[CHOOSE j \in Q : TRUE]
                   T == Stream[k].TIME
               IN  IF Cardinality(Q) = 1 /\ T - q.TIME > 0
                   THEN /\ tmp[k].QT = F(T - q.TIME)
                        /\ tmp[k].LEADNAM = q.LEADNAM
                        /\ tmp[k].HL7LEADNAM = q.HL7LEADNAM
                        /\ \A p \in {"QT", "QTRR", "QTCF"} :
                              ~isnan(tmp[k][p]) =>
                                  \E i \in Derived(q.LEADNAM, p) :
                                      /\ intervals[i].HL7LEADNAM = q.HL7LEADNAM
                                      /\ intervals[i].TIME = F(T)
                                      /\ intervals[i].AVAL = tmp[k][p]
                   ELSE /\ tmp[k].LEADNAM = "GLOBAL"
                        /\ tmp[k].HL7LEADNAM = ""
                        /\ ~isnan(tmp[k].QT) =>
                              \E j \in 1..(k - 1) :
                                  /\ IsType(j, "TOFF")
                                  /\ Stream[j].LEADNAM = "GLOBAL"
                                  /\ tmp[j].QT = tmp[k].QT

C5_Witness ==
    /\ pc = "returned"
    /\ \E k \in DOMAIN tmp :
          /\ IsType(k, "TOFF") /\ Stream[k].LEADNAM = "GLOBAL"
          /\ tmp[k].LEADNAM = "II" /\ tmp[k].HL7LEADNAM = "MDC_ECG_LEAD_II"
          /\ ~isnan(tmp[k].QT) /\ ~isnan(tmp[k].QTCF)
          /\ Derived("II", "QT") # {} /\ Derived("II", "QTRR") # {} /\ Derived("II", "QTCF") # {}

\* C6: every QTCF comes with a QT and a QTRR of the same lead and time, and
\* only from a T offset that at least two accepted R peaks of the lead precede.
C6_QTCFOnlyWithQTAndRR ==
    pc = "returned" =>
        /\ \A i \in DOMAIN intervals :
              intervals[i].PARAMCD = "QTCF" =>
                  \A p \in {"QT", "QTRR"} :
                      \E j \in DOMAIN intervals :
                          /\ intervals[j].PARAMCD = p
                          /\ intervals[j].LEADNAM = intervals[i].LEADNAM
                          /\ intervals[j].HL7LEADNAM = intervals[i].HL7LEADNAM
                          /\ intervals[j].TIME = intervals[i].TIME
        /\ \A k \in DOMAIN tmp :
              ~isnan(tmp[k].QTCF) =>
                  /\ IsType(k, "TOFF")
                  /\ Cardinality({Stream[j].TIME : j \in
                        {m \in 1..(k - 1) : /\ Stream[m].LEADNAM = Stream[k].LEADNAM
                                            /\ IsType(m, "RPEAK")}}) >= 2

C6_Witness ==
    /\ pc = "returned"
    /\ \E i \in DOMAIN intervals : intervals[i].PARAMCD = "QTCF" /\ intervals[i].AVAL.v > 0

(* ===================== properties of the summary ======================= *)
\* The groups of the interval table handed to get_interval_count_and_avg
InputGroups == {GroupOf(intervals[k]) : k \in DOMAIN intervals}

\* Positions of the rows of group g that hold a value
Defined(g) ==
    {k \in DOMAIN intervals : GroupOf(intervals[k]) = g /\ ~isnan(intervals[k].AVAL)}

\* Positions of the summary rows of kind dtype for group g
SummaryOf(g, dtype) ==
    {k \in DOMAIN res : res[k].DTYPE = dtype /\ GroupOf(res[k]) = g}

RECURSIVE Total(_)
Total(S) ==
    IF S = {} THEN 0
    ELSE LET k == CHOOSE x \in S : TRUE IN intervals[k].AVAL.v + Total(S \ {k})

C8_AllUndefinedGroupKept ==
    pc = "aggregated" =>
        \A g \in InputGroups :
            Defined(g) = {} =>
                /\ \E k \in SummaryOf(g, "COUNT") : res[k].AVAL = F(0)
                /\ \E k \in SummaryOf(g, "AVERAGE") : isnan(res[k].AVAL)

\* C8 as amended: a group whose values are all undefined is left out of the
\* summary, so every COUNT is at least 1 and every AVERAGE has a value.
C8_AllUndefinedGroupOmitted ==
    pc = "aggregated" =>
        /\ \A g \in InputGroups :
              Defined(g) = {} => SummaryOf(g, "COUNT") = {} /\ SummaryOf(g, "AVERAGE") = {}
        /\ \A k \in DOMAIN res :
              /\ res[k].DTYPE = "COUNT" => res[k].AVAL.v >= 1
              /\ res[k].DTYPE = "AVERAGE" => ~isnan(res[k].AVAL)

C8_Witness ==
    /\ pc = "aggregated"
    /\ \E g \in InputGroups : Defined(g) = {}
    /\ \E g \in InputGroups : Defined(g) # {} /\ SummaryOf(g, "COUNT") # {}

C10_PureAndStateless ==
    /\ anns_df_in_ms = given
    /\ (pc = "loop" /\ idx = 1) =>
          /\ \A x \in {preceeding_R, current_R, last_rr, last_pon, last_qon,
                       last_qoff, last_toff, last_qt} : isnan(x)
          /\ current_lead = ""
    /\ (pc = "returned" /\ memo # << >> /\ memo[1].input = given) =>
          SummaryRows(res) = memo[1].summary

C10_Witness ==
    /\ pc = "returned"
    /\ memo # << >> /\ memo[1].input = given /\ memo[1].other /\ memo[1].again
    /\ \E k \in DOMAIN tmp : tmp[k].LEADNAM # Stream[k].LEADNAM

(* ============== Aecg.anns_to_ms: the label of a boundary =============== *)
\* The wave codes that the classification of anns_to_ms tests, the empty
\* string of an absent component and the bare prefix that the fallback tests
WaveCodes ==
    {"", "MDC_ECG_WAVC", "MDC_ECG_WAVC_TYPE", "MDC_ECG_WAVC_PWAVE",
     "MDC_ECG_WAVC_QRSWAVE", "MDC_ECG_WAVC_RWAVE", "MDC_ECG_WAVC_TWAVE",
     "MDC_ECG_WAVC_PRSEG", "MDC_ECG_WAVC_QRSTWAVE", "MDC_ECG_WAVC_QWAVE",
     "MDC_ECG_WAVC_QSWAVE", "MDC_ECG_WAVC_SWAVE", "MDC_ECG_WAVC_STJ",
     "MDC_ECG_WAVC_PEAK"}

Slots == {"value", "low", "high"}

\* A label, or the IndexError of split("_")[3]
Label(s) == [raised |-> FALSE, label |-> s]

IndexError == [raised |-> TRUE, label |-> ""]

ecglib_suffix(param) ==
    CASE param = "value" -> "PEAK"
      [] param = "low" -> "ON"
      [] param = "high" -> "OFF"

\* Variant: the suffix follows the slot alone
annsufix_SlotOnly(ann, param) == ecglib_suffix(param)

annsufix(ann, param) ==
    IF ann.wavecomponent2 = "MDC_ECG_WAVC_PEAK" THEN "PEAK" ELSE ecglib_suffix(param)

\* code.split("_")[3] followed by the suffix; the empty string and the bare
\* prefix have no fourth token
FourthToken(code, sufix) ==
    CASE code = "" -> IndexError
      [] code = "MDC_ECG_WAVC" -> IndexError
      [] code = "MDC_ECG_WAVC_TYPE" -> Label("TYPE" \o sufix)
      [] code = "MDC_ECG_WAVC_PWAVE" -> Label("PWAVE" \o sufix)
      [] code = "MDC_ECG_WAVC_QRSWAVE" -> Label("QRSWAVE" \o sufix)
      [] code = "MDC_ECG_WAVC_RWAVE" -> Label("RWAVE" \o sufix)
      [] code = "MDC_ECG_WAVC_TWAVE" -> Label("TWAVE" \o sufix)
      [] code = "MDC_ECG_WAVC_PRSEG" -> Label("PRSEG" \o sufix)
      [] code = "MDC_ECG_WAVC_QRSTWAVE" -> Label("QRSTWAVE" \o sufix)
      [] code = "MDC_ECG_WAVC_QWAVE" -> Label("QWAVE" \o sufix)
      [] code = "MDC_ECG_WAVC_QSWAVE" -> Label("QSWAVE" \o sufix)
      [] code = "MDC_ECG_WAVC_SWAVE" -> Label("SWAVE" \o sufix)
      [] code = "MDC_ECG_WAVC_STJ" -> Label("STJ" \o sufix)
      [] code = "MDC_ECG_WAVC_PEAK" -> Label("PEAK" \o sufix)

\* TRUE if one of the three codes of the annotation is code
AnyCodeIs(ann, code) ==
    \/ ann.codetype = code
    \/ ann.wavecomponent = code
    \/ ann.wavecomponent2 = code

\* TRUE if one of the two wave components of the annotation is code
ComponentIs(ann, code) == ann.wavecomponent = code \/ ann.wavecomponent2 = code

\* Lines 544-556: the last branch of the classification
FallbackLabel(ann, sufix) ==
    IF ann.wavecomponent \notin {"MDC_ECG_WAVC_TYPE", "MDC_ECG_WAVC"}
    THEN FourthToken(ann.wavecomponent, sufix)
    ELSE IF ann.wavecomponent2 \notin {"MDC_ECG_WAVC_TYPE", "MDC_ECG_WAVC"}
         THEN FourthToken(ann.wavecomponent2, sufix)
         ELSE FourthToken(ann.codetype, sufix)

\* Lines 472-556: the value of the ECGLIBANNTYPE column for the boundary
\* that slot param of annotation ann holds; the column keeps its initial
\* "" where a branch assigns nothing.
ECGLIBANNTYPE(ann, param) ==
    LET sufix == annsufix(ann, param)
        generic == ann.codetype = "MDC_ECG_WAVC_TYPE"
    IN  CASE AnyCodeIs(ann, "MDC_ECG_WAVC_PWAVE") -> Label("P" \o sufix)
          [] OTHER ->
        CASE AnyCodeIs(ann, "MDC_ECG_WAVC_QRSWAVE") ->
                 IF param # "value" THEN Label("Q" \o sufix) ELSE Label("R" \o sufix)
          [] OTHER ->
        CASE AnyCodeIs(ann, "MDC_ECG_WAVC_RWAVE") -> Label("R" \o sufix)
          [] OTHER ->
        CASE AnyCodeIs(ann, "MDC_ECG_WAVC_TWAVE") -> Label("T" \o sufix)
          [] OTHER ->
        CASE generic /\ ComponentIs(ann, "MDC_ECG_WAVC_PRSEG") ->
                 IF param = "low" THEN Label("P" \o sufix)
                 ELSE IF param = "high" THEN Label("QON") ELSE Label("")
          [] OTHER ->
        CASE generic /\ ComponentIs(ann, "MDC_ECG_WAVC_QRSTWAVE") ->
                 IF param = "low" THEN Label("Q" \o sufix) ELSE Label("T" \o sufix)
          [] OTHER ->
        CASE /\ ann.codetype = "MDC_ECG_WAVC_QRSTWAVE"
             /\ ann.wavecomponent = "MDC_ECG_WAVC_QRSTWAVE"
             /\ ann.wavecomponent2 = "" ->
                 IF param = "low" THEN Label("Q" \o sufix)
                 ELSE IF param = "high" THEN Label("T" \o sufix) ELSE Label("")
          [] OTHER ->
        CASE ann.codetype = "MDC_ECG_WAVC_QWAVE" /\ ComponentIs(ann, "MDC_ECG_WAVC_QWAVE") ->
                 Label("Q" \o sufix)
          [] OTHER ->
        CASE generic /\ ComponentIs(ann, "MDC_ECG_WAVC_QSWAVE") -> Label("Q" \o sufix)
          [] OTHER ->
        CASE ann.codetype = "MDC_ECG_WAVC_SWAVE" /\ ComponentIs(ann, "MDC_ECG_WAVC_PEAK") ->
                 Label("S" \o sufix)
          [] OTHER ->
        CASE ann.codetype = "MDC_ECG_WAVC_STJ" /\ ComponentIs(ann, "MDC_ECG_WAVC_PEAK") ->
                 Label("QOFF")
          [] OTHER -> FallbackLabel(ann, sufix)

\* The scan variables of a state in which get_aecg_intervals is not called
NoScan ==
    /\ anns_df_in_ms = << >> /\ has_columns = TRUE /\ given = << >>
    /\ tmp = << >> /\ idx = 1
    /\ preceeding_R = NaN /\ current_R = NaN /\ last_rr = NaN
    /\ last_pon = NaN /\ last_qon = NaN /\ last_qoff = NaN
    /\ last_toff = NaN /\ last_qt = NaN
    /\ current_lead = ""
    /\ intervals = << >> /\ res = << >> /\ memo = << >>

scan == << anns_df_in_ms, has_columns, given, tmp, idx, locals, intervals, res, memo >>

\* One boundary slot of one annotation: the body of the loop over
\* ["value", "low", "high"] up to the label
Classify ==
    /\ pc = "label"
    /\ ret' = ECGLIBANNTYPE(call.ann, call.param)
    /\ pc' = "labelled"
    /\ UNCHANGED << call, local, scan, indexer >>

InitLabel ==
    /\ call \in [ann : [codetype : WaveCodes, wavecomponent : WaveCodes,
                        wavecomponent2 : WaveCodes],
                 param : Slots]
    /\ local = << >> /\ ret = << >>
    /\ pc = "label"
    /\ NoScan
    /\ NoIndexer

NextLabel == Classify

SpecLabel == InitLabel /\ [][NextLabel]_vars


(* ======================= parse_hl7_datetime ============================ *)
\* A string is a sequence of its characters where the code slices it.
DigitChars == << "0", "1", "2", "3", "4", "5", "6", "7", "8", "9" >>

IsDigit(c) == \E d \in DOMAIN DigitChars : DigitChars[d] = c

DigitVal(c) == (CHOOSE d \in DOMAIN DigitChars : DigitChars[d] = c) - 1

\* Python's s[a:b]
Slice(s, a, b) == SubSeq(s, a + 1, IF b < Len(s) THEN b ELSE Len(s))

AllDigits(s) == \A k \in DOMAIN s : IsDigit(s[k])

\* int(s) of a string of digits
RECURSIVE IntOf(_)
IntOf(s) ==
    IF s = << >> THEN 0 ELSE 10 * IntOf(SubSeq(s, 1, Len(s) - 1)) + DigitVal(s[Len(s)])

\* Position of the first "." of s from position k on, Len(s) + 1 if there is none
RECURSIVE DotFrom(_, _)
DotFrom(s, k) ==
    IF k > Len(s) THEN Len(s) + 1
    ELSE IF s[k] = "." THEN k ELSE DotFrom(s, k + 1)

\* Lines 708-713: hl7time.split(".")[0], and [1] or the empty list
datatime_str(hl7time) == SubSeq(hl7time, 1, DotFrom(hl7time, 1) - 1)

mstz_str(hl7time) ==
    LET d == DotFrom(hl7time, 1)
    IN  IF d > Len(hl7time) THEN << >>
        ELSE SubSeq(hl7time, d + 1, DotFrom(hl7time, d + 1) - 1)

\* Lines 715-738: the ISO string built from the slices of the HL7 string
isodatetime_str(hl7time) ==
    LET d == datatime_str(hl7time)
        n == Len(d)
        year == Slice(d, 0, 4)
        month == IF n > 4 THEN << "-" >> \o Slice(d, 4, 6) ELSE << >>
        day == IF n > 6 THEN << "-" >> \o Slice(d, 6, 8) ELSE << >>
        hh == IF n > 8 THEN << " " >> \o Slice(d, 8, 10) ELSE << >>
        min == IF n > 10 THEN << ":" >> \o Slice(d, 10, 12) ELSE << >>
        sec == IF n > 12 THEN << ":" >> \o Slice(d, 12, 14) ELSE << >>
        ms == IF n > 12 /\ Len(mstz_str(hl7time)) > 0
              THEN << "." >> \o Slice(mstz_str(hl7time), 0, 3) ELSE << >>
    IN  year \o month \o day \o hh \o min \o sec \o ms

IsLeap(y) == (y % 4 = 0 /\ y % 100 # 0) \/ y % 400 = 0

DaysInMonth(y, m) ==
    IF m = 2 THEN (IF IsLeap(y) THEN 29 ELSE 28)
    ELSE IF m \in {4, 6, 9, 11} THEN 30 ELSE 31

\* A datetime, or the ValueError of fromisoformat
ValueError ==
    [raised |-> TRUE, year |-> 0, month |-> 0, day |-> 0,
     hour |-> 0, minute |-> 0, second |-> 0, microsecond |-> 0]

DateTime(y, mo, d, h, mi, sec, us) ==
    [raised |-> FALSE, year |-> y, month |-> mo, day |-> d,
     hour |-> h, minute |-> mi, second |-> sec, microsecond |-> us]

\* datetime.datetime.fromisoformat of Python 3.7 and later on the strings
\* that isodatetime_str builds: YYYY-MM-DD, then optionally a separator and
\* HH, HH:MM, HH:MM:SS or HH:MM:SS.fff, every component in its calendar
\* range.  A year alone or a year and a month are not accepted.
fromisoformat(str) ==
    LET n == Len(str)
        Two(k) == IF n >= k + 1 /\ IsDigit(str[k]) /\ IsDigit(str[k + 1])
                  THEN IntOf(SubSeq(str, k, k + 1)) ELSE -1
        y == IF n >= 4 /\ AllDigits(SubSeq(str, 1, 4)) THEN IntOf(SubSeq(str, 1, 4)) ELSE -1
        mo == Two(6)
        d == Two(9)
        h == IF n > 10 THEN Two(12) ELSE 0
        mi == IF n > 13 THEN Two(15) ELSE 0
        sec == IF n > 16 THEN Two(18) ELSE 0
        us == IF n > 19
              THEN (IF n = 23 /\ AllDigits(SubSeq(str, 21, 23))
                    THEN 1000 * IntOf(SubSeq(str, 21, 23)) ELSE -1)
              ELSE 0
        shape == /\ n \in {10, 13, 16, 19, 23}
                 /\ str[5] = "-" /\ str[8] = "-"
                 /\ n > 13 => str[14] = ":"
                 /\ n > 16 => str[17] = ":"
                 /\ n > 19 => str[20] = "."
        range == /\ y >= 1 /\ mo \in 1..12 /\ d >= 1 /\ d <= DaysInMonth(y, mo)
                 /\ h \in 0..23 /\ mi \in 0..59 /\ sec \in 0..59 /\ us >= 0
    IN  IF shape /\ range THEN DateTime(y, mo, d, h, mi, sec, us) ELSE ValueError

\* Lines 698-740
parse_hl7_datetime(hl7time) == fromisoformat(isodatetime_str(hl7time))


\* HL7 time strings: the leading characters of a 14-digit stamp whose
\* components are in or out of their calendar range, with or without a
\* fraction of a second
Chars(a, b) == << a, b >>

StampParts ==
    [year : {<< "2", "0", "0", "2" >>, << "2", "0", "0", "4" >>},
     month : {Chars("0", "2"), Chars("1", "1"), Chars("1", "3")},
     day : {Chars("0", "1"), Chars("2", "9"), Chars("3", "1")},
     hh : {Chars("0", "9"), Chars("2", "4")},
     min : {Chars("1", "0"), Chars("6", "0")},
     sec : {Chars("0", "0"), Chars("5", "9")}]

FullStamp(p) == p.year \o p.month \o p.day \o p.hh \o p.min \o p.sec

Hl7Times ==
    {Slice(FullStamp(p), 0, n) : p \in StampParts, n \in {4, 5, 6, 8, 10, 12, 14}}
    \cup {FullStamp(p) \o << ".", "1", "2", "3" >> : p \in StampParts}

\* One call of parse_hl7_datetime
Parse ==
    /\ pc = "parse"
    /\ ret' = parse_hl7_datetime(call.hl7time)
    /\ pc' = "parsed"
    /\ UNCHANGED << call, local, scan, indexer >>

InitParse ==
    /\ call \in [hl7time : Hl7Times]
    /\ local = << >> /\ ret = << >>
    /\ pc = "parse"
    /\ NoScan
    /\ NoIndexer

NextParse == Parse

SpecParse == InitParse /\ [][NextParse]_vars


(* ================= Aecg.anns_to_ms: the time of a boundary ============= *)
\* TIME of a row of the result while it is built: a float, here a whole
\* number of microseconds, or the "" that the row starts with
TimeAt(us) == [set |-> TRUE, us |-> us]

NoTime == [set |-> FALSE, us |-> 0]

\* The row, or the exception that leaves anns_to_ms
Projected(t) == [raised |-> FALSE, TIME |-> t]

ProjectionError == [raised |-> TRUE, TIME |-> NoTime]

\* Days of year y before month m
RECURSIVE DaysBefore(_, _)
DaysBefore(y, m) == IF m = 1 THEN 0 ELSE DaysBefore(y, m - 1) + DaysInMonth(y, m - 1)

\* Days from 1 January of year 1 to the date (datetime.toordinal)
toordinal(t) ==
    365 * (t.year - 1) + ((t.year - 1) \div 4) - ((t.year - 1) \div 100)
        + ((t.year - 1) \div 400) + DaysBefore(t.year, t.month) + t.day

\* (a - b).total_seconds() * 1e3, in microseconds
total_us(a, b) ==
    ((((toordinal(a) - toordinal(b)) * 24 + (a.hour - b.hour)) * 60
        + (a.minute - b.minute)) * 60 + (a.second - b.second)) * 1000000
        + (a.microsecond - b.microsecond)

\* Lines 560-563 and 586-589: the offset of the boundary from the start time
AbsoluteTime(text, start_time) ==
    LET t == parse_hl7_datetime(text)
        t0 == parse_hl7_datetime(start_time)
    IN  IF t.raised \/ t0.raised THEN ProjectionError
        ELSE Projected(TimeAt(total_us(t, t0)))

\* Lines 570-576 and 578-584: float(text) scaled by the unit; float is
\* evaluated only under one of the three units, and on the texts of the
\* model it succeeds exactly on the strings of digits.
RelativeTime(text, unit) ==
    IF unit \notin {"ms", "us", "s"} THEN Projected(NoTime)
    ELSE IF text = << >> \/ ~AllDigits(text) THEN ProjectionError
    ELSE Projected(TimeAt(CASE unit = "ms" -> IntOf(text) * 1000
                            [] unit = "us" -> IntOf(text)
                            [] unit = "s" -> IntOf(text) * 1000000))

\* Lines 558-589
TimeOf(ann, param, start_time) ==
    IF ann.timecode = "TIME_ABSOLUTE"
    THEN (IF AbsoluteTime(ann[param], start_time).raised
          THEN RelativeTime(ann[param], ann[param \o "_unit"])
          ELSE AbsoluteTime(ann[param], start_time))
    ELSE IF ann.timecode = "TIME_RELATIVE"
         THEN RelativeTime(ann[param], ann[param \o "_unit"])
         ELSE AbsoluteTime(ann[param], start_time)

\* Lines 455-467: the row of one boundary
lead_ann(ann, label, time) ==
    [ANNGRPID |-> ann.anngrpid, BEATNUM |-> ann.beatnum,
     LEADNAM |-> DisplayName(ann.lead), HL7LEADNAM |-> ann.lead,
     ECGLIBANNTYPE |-> label,
     ANNTYPE |-> IF ann.wavecomponent # "MDC_ECG_WAVC_TYPE"
                 THEN ann.wavecomponent ELSE ann.codetype,
     TIME |-> time]

\* Lines 590-592: sort_values orders the floats of a column of floats and
\* strings before its strings
ProjectedKey(r) ==
    << r.ANNGRPID, r.BEATNUM, StrRank(r.LEADNAM), IF r.TIME.set THEN 0 ELSE 1, r.TIME.us >>

SortProjected(rows) ==
    LET keyed == SortStable([k \in DOMAIN rows |->
                                [key |-> ProjectedKey(rows[k]), row |-> rows[k]]])
    IN  [k \in DOMAIN keyed |-> keyed[k].row]

\* Lines 448-451: the start time of the lead of the annotation, if it has one
LeadStartTime(leads_start_times, lead, start_time) ==
    LET lead_st == SelectSeq(leads_start_times, LAMBDA x : x.leadname = lead)
    IN  IF Len(lead_st) > 0 THEN lead_st[1].time ELSE start_time

SlotNames == << "value", "low", "high" >>

\* Lines 440-592: one pass of the loop over the slots of annotation local.i
ProjectSlot ==
    /\ pc = "project"
    /\ local.i <= Len(call.ecganns)
    /\ LET ann == call.ecganns[local.i]
           param == SlotNames[local.p]
           start_time == IF local.p = 1
                         THEN LeadStartTime(call.leads_start_times, ann.lead, local.start_time)
                         ELSE local.start_time
           label == ECGLIBANNTYPE(ann, param)
           time == TimeOf(ann, param, start_time)
           next == IF local.p < Len(SlotNames)
                   THEN [local EXCEPT !.p = local.p + 1, !.start_time = start_time]
                   ELSE [local EXCEPT !.p = 1, !.i = local.i + 1, !.start_time = start_time]
       IN  IF ann[param] = << >>
           THEN local' = next /\ pc' = "project"
           ELSE IF label.raised \/ time.raised
                THEN local' = [local EXCEPT !.start_time = start_time] /\ pc' = "raised"
                ELSE /\ local' = [next EXCEPT !.res =
                            SortProjected(Append(local.res,
                                                 lead_ann(ann, label.label, time.TIME)))]
                     /\ pc' = "project"
    /\ UNCHANGED << call, ret, scan, indexer >>

\* Lines 593-600: the rows without a time are removed
ProjectReturn ==
    /\ pc = "project"
    /\ local.i > Len(call.ecganns)
    /\ ret' = SelectSeq(local.res, LAMBDA r : r.TIME.set)
    /\ pc' = "projected"
    /\ UNCHANGED << call, local, scan, indexer >>


\* The texts of a boundary slot: an HL7 stamp of the minute of the start
\* time, a short string of digits, a string that is neither, or nothing
Stamp(sec) ==
    FullStamp([year |-> << "2", "0", "0", "2" >>, month |-> Chars("1", "1"),
               day |-> Chars("2", "2"), hh |-> Chars("0", "9"),
               min |-> Chars("1", "0"), sec |-> sec])

SlotContents ==
    {[text |-> << >>, unit |-> ""], [text |-> Stamp(Chars("0", "1")), unit |-> ""]}
    \cup {[text |-> << DigitChars[k + 1] >>, unit |-> u] :
             k \in 1..MaxRelTime, u \in {"ms", "us", "s", "min"}}
    \cup {[text |-> << "n", "o" >>, unit |-> u] : u \in {"ms", "min"}}

\* One row of ecganns, a QRS wave annotation
Annotation(g, lead, timecode, value, low, high) ==
    [anngrpid |-> g, beatnum |-> 1, lead |-> lead,
     codetype |-> "MDC_ECG_WAVC_TYPE", wavecomponent |-> "MDC_ECG_WAVC_QRSWAVE",
     wavecomponent2 |-> "", timecode |-> timecode,
     value |-> value.text, value_unit |-> value.unit,
     low |-> low.text, low_unit |-> low.unit,
     high |-> high.text, high_unit |-> high.unit]

Empty == [text |-> << >>, unit |-> ""]

\* One annotation with any of its three slots filled, under a start time
\* that parses or an empty one
OneAnnotationCalls ==
    {[start_time |-> st, leads_start_times |-> << >>,
      ecganns |-> << Annotation(1, "", tc, v, l, h) >>] :
        st \in {Stamp(Chars("0", "0")), << >>},
        tc \in {"TIME_ABSOLUTE", "TIME_RELATIVE", ""},
        v \in SlotContents, l \in SlotContents, h \in SlotContents}

\* Two annotations with a value each, on the GLOBAL lead or lead II, with
\* or without a start time of lead II
TwoAnnotationCalls ==
    {[start_time |-> Stamp(Chars("0", "0")), leads_start_times |-> lst,
      ecganns |-> << Annotation(1, a.lead, a.tc, a.v, Empty, Empty),
                     Annotation(2, b.lead, b.tc, b.v, Empty, Empty) >>] :
        lst \in {<< >>, << [leadname |-> "MDC_ECG_LEAD_II", time |-> Stamp(Chars("0", "2"))] >>},
        a \in [lead : {"", "MDC_ECG_LEAD_II"}, tc : {"TIME_ABSOLUTE", "TIME_RELATIVE"},
               v : SlotContents \ {Empty}],
        b \in [lead : {"", "MDC_ECG_LEAD_II"}, tc : {"TIME_ABSOLUTE", "TIME_RELATIVE"},
               v : SlotContents \ {Empty}]}

InitProject ==
    /\ call \in OneAnnotationCalls \cup TwoAnnotationCalls
    /\ local = [i |-> 1, p |-> 1, start_time |-> call.start_time, res |-> << >>]
    /\ ret = << >>
    /\ pc = "project"
    /\ NoScan
    /\ NoIndexer

NextProject == ProjectSlot \/ ProjectReturn

SpecProject == InitProject /\ [][NextProject]_vars


(* ============================ lead_values_mv ========================== *)
\* A voltage in mV is a record [mV, nV]: mV whole millivolts plus nV
\* nanovolts, 0 <= nV < 1000000; the quantities of the model are not negative.
Volt(mV, nV) == [mV |-> mV + (nV \div 1000000), nV |-> nV % 1000000]

\* x * 1e-3, x * 1e3, x and x * 1e-6 for the units uV, V, mV and nV
InMilliVolt(x, unit) ==
    CASE unit = "uV" -> Volt(0, x * 1000)
      [] unit = "V" -> Volt(x * 1000, 0)
      [] unit = "mV" -> Volt(x, 0)
      [] unit = "nV" -> Volt(0, x)

\* What lead_values_mv returns or raises
Values(v) == [raised |-> "", values |-> v]

Raised(error) == [raised |-> error, values |-> << >>]

\* Lines 743-781.  Every test of the origin unit after the first reads
\* aecglead.oirigin_unit, an attribute that AecgLead does not have.
lead_values_mv(aecglead) ==
    IF aecglead.origin_unit # "uV" THEN Raised("AttributeError")
    ELSE IF aecglead.scale_unit \notin {"uV", "V", "mV", "nV"} THEN Raised("UnknownUnitsError")
    ELSE LET origin == InMilliVolt(aecglead.origin, aecglead.origin_unit)
             scale == InMilliVolt(aecglead.scale, aecglead.scale_unit)
         IN  Values([k \in DOMAIN aecglead.digits |->
                        Volt(aecglead.digits[k] * scale.mV + origin.mV,
                             aecglead.digits[k] * scale.nV + origin.nV)])

VoltUnits == {"uV", "mV", "V", "nV", "furlongs"}

\* One call of lead_values_mv
Convert ==
    /\ pc = "convert"
    /\ ret' = lead_values_mv(call.aecglead)
    /\ pc' = "converted"
    /\ UNCHANGED << call, local, scan, indexer >>

InitConvert ==
    /\ call \in [aecglead : [origin : 0..MaxOrigin, origin_unit : VoltUnits,
                             scale : 1..MaxScale, scale_unit : VoltUnits,
                             digits : UNION {[1..n -> 0..MaxDigit] : n \in 0..MaxDigits}]]
    /\ local = << >> /\ ret = << >>
    /\ pc = "convert"
    /\ NoScan
    /\ NoIndexer

NextConvert == Convert

SpecConvert == InitConvert /\ [][NextConvert]_vars


(* ============== DirectoryIndexer.index_directory (indexing.py) ========= *)
\* EGSTUDYID of a row of a frame that has no such column: NaN once the
\* frames are concatenated
NoStudyId == -1

\* What reading and deriving one file comes to: its waveforms are indexed
\* under a study, read_aecg finds no waveform in it (a missing or empty
\* file), or an exception is raised while it is read or derived
FileOutcomes ==
    {[outcome |-> "indexed", EGSTUDYID |-> k] : k \in 1..MaxStudy}
    \cup {[outcome |-> "nowaveforms", EGSTUDYID |-> 0],
          [outcome |-> "fails", EGSTUDYID |-> NoStudyId]}

\* Lines 526-572 for the one-row frame of file number k: the rows of the
\* file (one row stands for them), or tmp_index with the ERROR of the handler
index_study_xml_file(aecg_files, k) ==
    LET f == aecg_files[k]
    IN  << [AECGXML |-> k, EGSTUDYID |-> f.EGSTUDYID,
            ERROR |-> CASE f.outcome = "indexed" -> ""
                        [] f.outcome = "nowaveforms" -> "No waveforms found"
                        [] f.outcome = "fails" ->
                               "Error reading or parsing aECG XML file"] >>

RECURSIVE Concat(_)
Concat(frames) ==
    IF frames = << >> THEN << >> ELSE frames[1] \o Concat(Tail(frames))

\* Lines 705-708: sort_values by EGSTUDYID puts the rows without a value last
StudyKey(r) == << IF r.EGSTUDYID = NoStudyId THEN 1 ELSE 0, r.EGSTUDYID >>

SortByStudy(rows) ==
    LET keyed == SortStable([k \in DOMAIN rows |-> [key |-> StudyKey(rows[k]), row |-> rows[k]]])
    IN  [k \in DOMAIN keyed |-> keyed[k].row]

\* Lines 659-668: the start of index_directory; np.array_split into zero
\* sections is a ValueError
StartIndexing ==
    /\ pc = "index"
    /\ cancel_indexing' = FALSE
    /\ studyindex' = << >>
    /\ IF call.aecg_files = << >> THEN pc' = "raised" /\ pool' = pool
       ELSE IF call.num_processes > 1
            THEN pc' = "pool" /\ pool' = [k \in DOMAIN call.aecg_files |-> "queued"]
            ELSE pc' = "sequential" /\ pool' = pool
    /\ UNCHANGED << call, local, ret, scan >>

\* Lines 689-698: one pass of the loop of the sequential mode
IndexNextFile ==
    /\ pc = "sequential"
    /\ studyindex' = Append(studyindex, index_study_xml_file(call.aecg_files, local.i))
    /\ local' = [local EXCEPT !.i = local.i + 1]
    /\ pc' = IF cancel_indexing \/ local.i = Len(call.aecg_files) THEN "concat" ELSE "sequential"
    /\ UNCHANGED << call, ret, cancel_indexing, pool, scan >>

Running == {k \in DOMAIN pool : pool[k] = "running"}

\* A worker process of the Pool takes the next task of the queue
WorkerTakes ==
    /\ pc = "pool"
    /\ Cardinality(Running) < call.num_processes
    /\ \E k \in DOMAIN pool :
          /\ pool[k] = "queued"
          /\ \A j \in 1..(k - 1) : pool[j] # "queued"
          /\ pool' = [pool EXCEPT ![k] = "running"]
    /\ UNCHANGED << call, local, ret, cancel_indexing, studyindex, pc, scan >>

\* A worker process returns from index_study_xml_file
WorkerReturns ==
    /\ pc = "pool"
    /\ \E k \in Running : pool' = [pool EXCEPT ![k] = "done"]
    /\ UNCHANGED << call, local, ret, cancel_indexing, studyindex, pc, scan >>

\* Variant: the loop over the results ends as soon as no task is queued or
\* running, whether or not every result has been taken
CollectResult_UntilIdle ==
    /\ pc = "pool"
    /\ \E k \in DOMAIN pool :
          /\ pool[k] = "done"
          /\ studyindex' = Append(studyindex, index_study_xml_file(call.aecg_files, k))
          /\ LET collected == [pool EXCEPT ![k] = "collected"]
             IN  IF cancel_indexing \/ \A j \in DOMAIN pool : collected[j] \in {"collected", "done"}
                 THEN /\ pool' = [j \in DOMAIN pool |->
                                    CASE collected[j] = "running" -> "terminated"
                                      [] collected[j] \in {"queued", "done"} -> "discarded"
                                      [] OTHER -> collected[j]]
                      /\ pc' = "concat"
                 ELSE pool' = collected /\ pc' = "pool"
    /\ UNCHANGED << call, local, ret, cancel_indexing, scan >>

\* Lines 677-687: one pass of the loop over imap_unordered.  Leaving the
\* with block, by break or at the end, is Pool.terminate(): the worker
\* processes are stopped without completing outstanding work.
CollectResult ==
    /\ pc = "pool"
    /\ \E k \in DOMAIN pool :
          /\ pool[k] = "done"
          /\ studyindex' = Append(studyindex, index_study_xml_file(call.aecg_files, k))
          /\ LET collected == [pool EXCEPT ![k] = "collected"]
             IN  IF cancel_indexing \/ \A j \in DOMAIN pool : collected[j] = "collected"
                 THEN /\ pool' = [j \in DOMAIN pool |->
                                    CASE collected[j] = "running" -> "terminated"
                                      [] collected[j] \in {"queued", "done"} -> "discarded"
                                      [] OTHER -> collected[j]]
                      /\ pc' = "concat"
                 ELSE pool' = collected /\ pc' = "pool"
    /\ UNCHANGED << call, local, ret, cancel_indexing, scan >>

\* Another thread sets the flag while the directory is indexed
Cancel ==
    /\ pc \in {"sequential", "pool"}
    /\ ~cancel_indexing
    /\ cancel_indexing' = TRUE
    /\ UNCHANGED << call, local, ret, studyindex, pool, pc, scan >>

\* Lines 700-714: the frames are concatenated and sorted by EGSTUDYID,
\* USUBJID and EGDTC, columns that only the frame of a file that raised no
\* exception has; sorting by a missing column is a KeyError.
ConcatIndex ==
    /\ pc = "concat"
    /\ IF \A k \in DOMAIN studyindex : \A j \in DOMAIN studyindex[k] :
              studyindex[k][j].EGSTUDYID = NoStudyId
       THEN pc' = "raised" /\ UNCHANGED << ret, cancel_indexing >>
       ELSE /\ ret' = SortByStudy(Concat(studyindex))
            /\ cancel_indexing' = FALSE
            /\ pc' = "indexed"
    /\ UNCHANGED << call, local, studyindex, pool, scan >>

InitIndexer ==
    /\ call \in [aecg_files : UNION {[1..n -> FileOutcomes] : n \in 0..MaxFiles},
                 num_processes : 1..MaxProcesses]
    /\ local = [i |-> 1]
    /\ ret = << >>
    /\ cancel_indexing \in BOOLEAN
    /\ studyindex = << >>
    /\ pool = << >>
    /\ pc = "index"
    /\ NoScan

NextIndexer ==
    \/ StartIndexing \/ IndexNextFile \/ WorkerTakes \/ WorkerReturns
    \/ CollectResult \/ Cancel \/ ConcatIndex

SpecIndexer == InitIndexer /\ [][NextIndexer]_vars

(* ============================ read_aecg (io.py) ======================== *)
None == "None"

\* The files that the calls can name: what lies at a path, and what each zip
\* container holds under a member name. A path that is not listed is missing.
Disk ==
    [p \in {"ecg.xml", "invalid.xml", "bad.xml", "bad.zip",
            "aecg.xsd", "notschema.xsd", "notxml.xsd"} |->
        CASE p = "ecg.xml" -> "valid"
          [] p = "invalid.xml" -> "invalid"
          [] p = "aecg.xsd" -> "schema"
          [] p = "notschema.xsd" -> "notschema"
          [] OTHER -> "malformed"]

ZipFiles ==
    [z \in {"ecgs.zip"} |->
        [p \in {"ecg.xml", "invalid.xml", "bad.xml"} |->
            CASE p = "ecg.xml" -> "valid"
              [] p = "invalid.xml" -> "invalid"
              [] OTHER -> "malformed"]]

\* Contents that the XML parser accepts
WellFormed == {"valid", "invalid", "schema", "notschema"}

Raises == [raised |-> TRUE, value |-> None]

Returns(value) == [raised |-> FALSE, value |-> value]

\* etree.parse(path): the document at the path, or an exception
etree_parse(path) ==
    IF path \in DOMAIN Disk /\ Disk[path] \in WellFormed
    THEN Returns(Disk[path]) ELSE Raises

\* zipfile.ZipFile(path): the members of the container, or an exception
ZipFile(path) ==
    IF path \in DOMAIN ZipFiles THEN Returns(ZipFiles[path]) ELSE Raises

\* zf.read(name): the bytes of the member, or an exception
zf_read(zf, name) ==
    IF name \in DOMAIN zf THEN Returns(zf[name]) ELSE Raises

\* etree.fromstring(bytes): the root element, or an exception
etree_fromstring(bytes) ==
    IF bytes \in WellFormed THEN Returns(bytes) ELSE Raises

\* etree.XMLSchema(doc): the schema object, or an exception
XMLSchema(doc) ==
    IF doc = "schema" THEN Returns(doc) ELSE Raises

\* aecg_schema.validate(aecg_doc)
validate(aecg_doc) == aecg_doc = "valid"

valrow(param, valiout) == [PARAM |-> param, VALIOUT |-> valiout]

\* Lines 2426-2459: the source is a file of the system; the handler of line
\* 2443 takes every exception of the parse
ReadFromFile(xml_filename) ==
    LET parsed == etree_parse(xml_filename) IN
    IF parsed.raised
    THEN [raised |-> FALSE, aecg_doc |-> None,
          rows |-> << valrow("FILENAME", "ERROR"), valrow("ZIPCONTAINER", "PASSED") >>]
    ELSE [raised |-> FALSE, aecg_doc |-> parsed.value,
          rows |-> << valrow("FILENAME", "PASSED"), valrow("ZIPCONTAINER", "PASSED") >>]

\* Variant: a member that the container does not hold is not handled
ReadFromZip_MemberUnhandled(xml_filename, zip_container) ==
    LET zf == ZipFile(zip_container) IN
    IF zf.raised
    THEN [raised |-> FALSE, aecg_doc |-> None,
          rows |-> << valrow("ZIPCONTAINER", "ERROR") >>]
    ELSE LET aecg0 == zf_read(zf.value, xml_filename) IN
         IF aecg0.raised
         THEN [raised |-> TRUE, aecg_doc |-> None, rows |-> << >>]
         ELSE [raised |-> FALSE,
               aecg_doc |-> etree_fromstring(aecg0.value).value,
               rows |-> << valrow("FILENAME", "PASSED"),
                           valrow("ZIPCONTAINER", "PASSED") >>]

\* Lines 2460-2528: the source is a member of a zip container; the handlers
\* of lines 2485, 2502 and 2519 take every exception of the parse, of the read
\* of the member and of the opening of the container. After a failed parse the
\* row of the file name is logged as an error and then once more as passed.
ReadFromZip(xml_filename, zip_container) ==
    LET zf == ZipFile(zip_container) IN
    IF zf.raised
    THEN [raised |-> FALSE, aecg_doc |-> None,
          rows |-> << valrow("ZIPCONTAINER", "ERROR") >>]
    ELSE LET aecg0 == zf_read(zf.value, xml_filename) IN
         IF aecg0.raised
         THEN [raised |-> FALSE, aecg_doc |-> None,
               rows |-> << valrow("FILENAME", "ERROR"),
                           valrow("ZIPCONTAINER", "PASSED") >>]
         ELSE LET parsed == etree_fromstring(aecg0.value) IN
              IF parsed.raised
              THEN [raised |-> FALSE, aecg_doc |-> None,
                    rows |-> << valrow("FILENAME", "ERROR"),
                                valrow("FILENAME", "PASSED"),
                                valrow("ZIPCONTAINER", "PASSED") >>]
              ELSE [raised |-> FALSE, aecg_doc |-> parsed.value,
                    rows |-> << valrow("FILENAME", "PASSED"),
                                valrow("ZIPCONTAINER", "PASSED") >>]

\* Lines 2535-2542: the document was found and, when the reading is logged,
\* every row that it logged is a pass
LoadedAndParsed(aecg, log_validation) ==
    /\ aecg.xmlfound
    /\ \/ ~log_validation
       \/ /\ Len(aecg.validatorResults) = 1
          /\ aecg.validatorResults[1].VALIOUT = "PASSED"
       \/ /\ Len(aecg.validatorResults) = 2
          /\ aecg.validatorResults[1].VALIOUT = "PASSED"
          /\ aecg.validatorResults[2].VALIOUT = "PASSED"

\* Variant: a schema that cannot be used counts against the document
SchemaVerdict_UnusableIsNo(aecg_schema_filename, aecg_doc) ==
    IF aecg_schema_filename = None \/ aecg_schema_filename = ""
    THEN [isValid |-> "", VALIOUT |-> "WARNING"]
    ELSE IF etree_parse(aecg_schema_filename).raised
            \/ XMLSchema(etree_parse(aecg_schema_filename).value).raised
         THEN [isValid |-> "N", VALIOUT |-> "ERROR"]
         ELSE IF validate(aecg_doc)
              THEN [isValid |-> "Y", VALIOUT |-> "PASSED"]
              ELSE [isValid |-> "N", VALIOUT |-> "ERROR"]

\* Lines 2562-2599: the outcome of the validation against the schema; "" is
\* the isValid of a new Aecg (core.py:294)
SchemaVerdict(aecg_schema_filename, aecg_doc) ==
    IF aecg_schema_filename = None \/ aecg_schema_filename = ""
    THEN [isValid |-> "", VALIOUT |-> "WARNING"]
    ELSE LET aecg_schema_doc == etree_parse(aecg_schema_filename) IN
         IF aecg_schema_doc.raised
         THEN [isValid |-> "", VALIOUT |-> "ERROR"]
         ELSE IF XMLSchema(aecg_schema_doc.value).raised
              THEN [isValid |-> "", VALIOUT |-> "ERROR"]
              ELSE IF validate(aecg_doc)
                   THEN [isValid |-> "Y", VALIOUT |-> "PASSED"]
                   ELSE [isValid |-> "N", VALIOUT |-> "ERROR"]

\* core.py:292-296, 350: a new Aecg
NewAecg ==
    [filename |-> "", zipContainer |-> "", isValid |-> "", xmlfound |-> FALSE,
     xmldoc |-> None, validatorResults |-> << >>]

\* Lines 2416-2533: the Aecg is created and the document is read
ReadDocument ==
    /\ pc = "read"
    /\ LET source == IF call.zip_container = ""
                     THEN ReadFromFile(call.xml_filename)
                     ELSE ReadFromZip(call.xml_filename, call.zip_container)
           aecg == [NewAecg EXCEPT !.filename = call.xml_filename,
                                   !.zipContainer = call.zip_container]
       IN IF source.raised
          THEN /\ pc' = "raised"
               /\ UNCHANGED local
          ELSE /\ local' = [aecg_doc |-> source.aecg_doc,
                            aecg |-> [aecg EXCEPT
                                !.xmlfound = source.aecg_doc # None,
                                !.validatorResults =
                                    IF call.log_validation THEN source.rows ELSE << >>]]
               /\ pc' = "opened"
    /\ UNCHANGED << call, ret, scan, indexer >>

\* Lines 2535-2606: the document is kept if asked for and validated against
\* the schema
ValidateSchema ==
    /\ pc = "opened"
    /\ LoadedAndParsed(local.aecg, call.log_validation)
    /\ LET verdict == SchemaVerdict(call.aecg_schema_filename, local.aecg_doc) IN
       local' = [local EXCEPT
           !.aecg.xmldoc = IF call.in_memory_xml THEN local.aecg_doc ELSE None,
           !.aecg.isValid = verdict.isValid,
           !.aecg.validatorResults =
               IF call.log_validation
               THEN Append(@, valrow("VALIDATION", verdict.VALIOUT)) ELSE @]
    /\ pc' = "validated"
    /\ UNCHANGED << call, ret, scan, indexer >>

\* Lines 2608-2664: the content of a document that was found is parsed into
\* the other attributes of the Aecg, and the Aecg is returned
ReturnAecg ==
    /\ \/ pc = "validated"
       \/ pc = "opened" /\ ~LoadedAndParsed(local.aecg, call.log_validation)
    /\ ret' = local.aecg
    /\ pc' = "returned"
    /\ UNCHANGED << call, local, scan, indexer >>

XmlFilenames == {"ecg.xml", "invalid.xml", "bad.xml", "missing.xml"}

ZipContainers == {"", "ecgs.zip", "bad.zip", "missing.zip"}

SchemaFilenames == {None, "", "aecg.xsd", "notschema.xsd", "notxml.xsd", "missing.xsd"}

InitRead ==
    /\ call \in [xml_filename : XmlFilenames, zip_container : ZipContainers,
                 aecg_schema_filename : SchemaFilenames,
                 in_memory_xml : BOOLEAN, log_validation : BOOLEAN]
    /\ local = << >> /\ ret = << >>
    /\ pc = "read"
    /\ NoScan
    /\ NoIndexer

NextRead == ReadDocument \/ ValidateSchema \/ ReturnAecg

SpecRead == InitRead /\ [][NextRead]_vars

(* ==================== Aecg.subject_age_in_years (core.py) ============== *)
\* Lines 654-657: the first of low, center and high that is not empty
FirstEgdtc(EGDTC) ==
    IF EGDTC.low # << >> THEN EGDTC.low
    ELSE IF EGDTC.center # << >> THEN EGDTC.center ELSE EGDTC.high

\* datetime.datetime(year, month, day)
datetime(year, month, day) ==
    IF year >= 1 /\ month \in 1..12 /\ day >= 1 /\ day <= DaysInMonth(year, month)
    THEN DateTime(year, month, day, 0, 0, 0, 0) ELSE ValueError

\* a < b on two datetimes
Earlier(a, b) ==
    LET ka == << a.year, a.month, a.day, a.hour, a.minute, a.second, a.microsecond >>
        kb == << b.year, b.month, b.day, b.hour, b.minute, b.second, b.microsecond >>
    IN  \E i \in 1..7 : ka[i] < kb[i] /\ \A j \in 1..(i - 1) : ka[j] = kb[j]

\* Lines 644-677: every exception leaves the age at -1, because the age is
\* assigned after the anniversary is built
subject_age_in_years(aecg) ==
    LET egdtc == FirstEgdtc(aecg.EGDTC) IN
    IF egdtc # << >> /\ aecg.BIRTHTIME # << >>
    THEN LET bd == parse_hl7_datetime(aecg.BIRTHTIME)
             ecgd == parse_hl7_datetime(egdtc)
             anniversary == datetime(ecgd.year, bd.month, bd.day)
         IN  IF bd.raised \/ ecgd.raised \/ anniversary.raised THEN -1
             ELSE IF Earlier(ecgd, anniversary)
                  THEN ecgd.year - bd.year - 1 ELSE ecgd.year - bd.year
    ELSE -1

\* One call of subject_age_in_years
Age ==
    /\ pc = "age"
    /\ ret' = subject_age_in_years(call.aecg)
    /\ pc' = "aged"
    /\ UNCHANGED << call, local, scan, indexer >>

\* Dates of the calls: an empty attribute, the days around the end of
\* February of a leap year and of the year after it, and a month out of range
AgeDates ==
    {<< >>, << "2", "0", "0", "0", "1", "3", "0", "1" >>}
    \cup {<< "2", "0", "0", y >> \o md :
            y \in {"0", "1"},
            md \in {<< "0", "2", "2", "8" >>, << "0", "2", "2", "9" >>,
                    << "0", "3", "0", "1" >>}}

InitAge ==
    /\ call \in [aecg : [BIRTHTIME : AgeDates,
                         EGDTC : [low : AgeDates, center : AgeDates, high : AgeDates]]]
    /\ local = << >> /\ ret = << >>
    /\ pc = "age"
    /\ NoScan
    /\ NoIndexer

NextAge == Age

SpecAge == InitAge /\ [][NextAge]_vars

(* ============== display names of the lead codes (core.py) ============== *)
\* A lead code: the scheme and, character by character, the name of the
\* lead behind it ("MDC_ECG_LEAD_aVR" is the scheme MDC_ECG_LEAD and a, V, R)
LeadCode(scheme, lead) == [scheme |-> scheme, lead |-> lead]

Mdc(lead) == LeadCode("MDC_ECG_LEAD", lead)

\* The lead of an annotation without lead, ""
NoLead == LeadCode("", << >>)

\* Lines 36-42
STD_LEADS ==
    << Mdc(<< "I" >>), Mdc(<< "I", "I" >>), Mdc(<< "I", "I", "I" >>),
       Mdc(<< "A", "V", "R" >>), Mdc(<< "A", "V", "L" >>), Mdc(<< "A", "V", "F" >>),
       Mdc(<< "V", "1" >>), Mdc(<< "V", "2" >>), Mdc(<< "V", "3" >>),
       Mdc(<< "V", "4" >>), Mdc(<< "V", "5" >>), Mdc(<< "V", "6" >>),
       Mdc(<< "X" >>), Mdc(<< "Y" >>), Mdc(<< "Z" >>),
       Mdc(<< "A", "V", "R", "n", "e", "g" >>), Mdc(<< "A", "V", "R", "N", "E", "G" >>),
       Mdc(<< "a", "V", "R" >>), Mdc(<< "a", "V", "L" >>), Mdc(<< "a", "V", "F" >>) >>

\* Line 45
KNOWN_NON_STD_LEADS ==
    << LeadCode("MORTARA_ECG_LEAD", << "T", "E", "A" >>),
       LeadCode("FDA_ECG_LEAD", << "V", "C", "G", "M", "A", "G" >>) >>

Item(key, name) == [key |-> key, name |-> name]

\* Lines 51-69: the items of the dictionary
STD_LEADS_DISPLAYNAMES ==
    << Item(Mdc(<< "I" >>), "I"), Item(Mdc(<< "I", "I" >>), "II"),
       Item(Mdc(<< "I", "I", "I" >>), "III"),
       Item(Mdc(<< "A", "V", "R" >>), "aVR"), Item(Mdc(<< "A", "V", "L" >>), "aVL"),
       Item(Mdc(<< "A", "V", "F" >>), "aVF"),
       Item(Mdc(<< "A", "V", "R", "n", "e", "g" >>), "-aVR"),
       Item(Mdc(<< "A", "V", "R", "N", "E", "G" >>), "-aVR"),
       Item(Mdc(<< "V", "1" >>), "V1"), Item(Mdc(<< "V", "2" >>), "V2"),
       Item(Mdc(<< "V", "3" >>), "V3"), Item(Mdc(<< "V", "4" >>), "V4"),
       Item(Mdc(<< "V", "5" >>), "V5"), Item(Mdc(<< "V", "6" >>), "V6"),
       Item(KNOWN_NON_STD_LEADS[1], "Mortara TEA"),
       Item(KNOWN_NON_STD_LEADS[2], "VCGMAG"),
       Item(Mdc(<< "a", "V", "R" >>), "aVR"), Item(Mdc(<< "a", "V", "L" >>), "aVL"),
       Item(Mdc(<< "a", "V", "F" >>), "aVF") >>

\* str.upper on one character
UpperChar(c) ==
    CASE c = "a" -> "A" [] c = "e" -> "E" [] c = "g" -> "G" [] c = "n" -> "N"
      [] c = "v" -> "V" [] OTHER -> c

\* code.upper(): the schemes are in upper case already
upper(code) == [code EXCEPT !.lead = [k \in DOMAIN code.lead |-> UpperChar(code.lead[k])]]

\* A name, or the KeyError of the dictionary
Named(name) == [raised |-> FALSE, name |-> name]

KeyError == [raised |-> TRUE, name |-> ""]

\* STD_LEADS_DISPLAYNAMES[key]
DisplayNameOf(key) ==
    LET found == SelectSeq(STD_LEADS_DISPLAYNAMES, LAMBDA item : item.key = key)
    IN  IF found = << >> THEN KeyError ELSE Named(found[1].name)

InStdLeads(code) == \E k \in DOMAIN STD_LEADS : STD_LEADS[k] = code

\* Lines 207-210: AecgLead.display_name
display_name(leadname) ==
    IF InStdLeads(leadname) THEN DisplayNameOf(upper(leadname)) ELSE Named(leadname)

\* Lines 441-447: the lead name of an annotation in Aecg.anns_to_ms
leadnam(lead) ==
    IF lead # NoLead
    THEN (IF InStdLeads(lead) THEN DisplayNameOf(upper(lead)) ELSE Named(lead))
    ELSE Named("GLOBAL")

\* display_name of the next lead of the waveform
DisplayNameStep ==
    /\ pc = "lead"
    /\ call.fn = "display_name"
    /\ local.i <= Len(call.leads)
    /\ LET name == display_name(call.leads[local.i])
       IN  IF name.raised
           THEN pc' = "raised" /\ UNCHANGED local
           ELSE /\ local' = [local EXCEPT !.i = local.i + 1,
                                          !.names = Append(local.names, name.name)]
                /\ pc' = "lead"
    /\ UNCHANGED << call, ret, scan, indexer >>

\* The lead name of the next annotation in the loop of anns_to_ms
LeadNameStep ==
    /\ pc = "lead"
    /\ call.fn = "anns_to_ms"
    /\ local.i <= Len(call.leads)
    /\ LET name == leadnam(call.leads[local.i])
       IN  IF name.raised
           THEN pc' = "raised" /\ UNCHANGED local
           ELSE /\ local' = [local EXCEPT !.i = local.i + 1,
                                          !.names = Append(local.names, name.name)]
                /\ pc' = "lead"
    /\ UNCHANGED << call, ret, scan, indexer >>

\* Every lead has its name
LeadsNamed ==
    /\ pc = "lead"
    /\ local.i > Len(call.leads)
    /\ ret' = local.names
    /\ pc' = "named"
    /\ UNCHANGED << call, local, scan, indexer >>

\* The lead codes of the calls: the accepted ones, a code that is not
\* accepted, and no lead
LeadCodes ==
    {STD_LEADS[k] : k \in DOMAIN STD_LEADS}
    \cup {KNOWN_NON_STD_LEADS[k] : k \in DOMAIN KNOWN_NON_STD_LEADS}
    \cup {LeadCode("MDC_ECG_LEAD", << "V", "7" >>), NoLead}

InitLead ==
    /\ call \in [fn : {"display_name", "anns_to_ms"},
                 leads : UNION {[1..n -> LeadCodes] : n \in 1..MaxLeads}]
    /\ local = [i |-> 1, names |-> << >>]
    /\ ret = << >>
    /\ pc = "lead"
    /\ NoScan
    /\ NoIndexer

NextLead == DisplayNameStep \/ LeadNameStep \/ LeadsNamed

SpecLead == InitLead /\ [][NextLead]_vars

(* ------------------ properties of the classification ------------------- *)
Unstated == "?"

\* The suffix as the rule list states it
RuleSuffix(ann, param) ==
    IF ann.wavecomponent2 = "MDC_ECG_WAVC_PEAK" THEN "PEAK"
    ELSE IF param = "value" THEN "PEAK" ELSE IF param = "low" THEN "ON" ELSE "OFF"

\* Rules 1 to 11 as listed, first match wins; Unstated where no rule of the
\* list matches or the matching rule says nothing about the slot
RuleLabel(ann, param) ==
    LET x == RuleSuffix(ann, param)
        generic == ann.codetype = "MDC_ECG_WAVC_TYPE"
        LowHigh(low, high) ==
            IF param = "low" THEN low ELSE IF param = "high" THEN high ELSE Unstated
    IN  IF AnyCodeIs(ann, "MDC_ECG_WAVC_PWAVE") THEN "P" \o x
        ELSE IF AnyCodeIs(ann, "MDC_ECG_WAVC_QRSWAVE")
             THEN (IF param = "value" THEN "R" \o x ELSE "Q" \o x)
        ELSE IF AnyCodeIs(ann, "MDC_ECG_WAVC_RWAVE") THEN "R" \o x
        ELSE IF AnyCodeIs(ann, "MDC_ECG_WAVC_TWAVE") THEN "T" \o x
        ELSE IF generic /\ ComponentIs(ann, "MDC_ECG_WAVC_PRSEG")
             THEN LowHigh("P" \o x, "QON")
        ELSE IF generic /\ ComponentIs(ann, "MDC_ECG_WAVC_QRSTWAVE")
             THEN LowHigh("Q" \o x, "T" \o x)
        ELSE IF /\ ann.codetype = "MDC_ECG_WAVC_QRSTWAVE"
                /\ ann.wavecomponent = "MDC_ECG_WAVC_QRSTWAVE"
                /\ ann.wavecomponent2 = ""
             THEN LowHigh("Q" \o x, "T" \o x)
        ELSE IF ComponentIs(ann, "MDC_ECG_WAVC_QWAVE") THEN LowHigh("Q" \o x, "Q" \o x)
        ELSE IF generic /\ ComponentIs(ann, "MDC_ECG_WAVC_QSWAVE")
             THEN LowHigh("Q" \o x, "Q" \o x)
        ELSE IF ann.codetype = "MDC_ECG_WAVC_SWAVE" /\ ann.wavecomponent2 = "MDC_ECG_WAVC_PEAK"
             THEN "S" \o x
        ELSE IF ann.codetype = "MDC_ECG_WAVC_STJ" /\ ann.wavecomponent2 = "MDC_ECG_WAVC_PEAK"
             THEN "QOFF"
        ELSE Unstated

\* The rule list with rule 8 bound to a Q-wave code type, rules 10 and 11
\* taking PEAK from either component, and the value slot spelled out: no
\* label under rules 5 and 7, "T" under rule 6, "Q" under rules 8 and 9
RuleLabelByCodeType(ann, param) ==
    LET x == RuleSuffix(ann, param)
        generic == ann.codetype = "MDC_ECG_WAVC_TYPE"
    IN  IF AnyCodeIs(ann, "MDC_ECG_WAVC_PWAVE") THEN "P" \o x
        ELSE IF AnyCodeIs(ann, "MDC_ECG_WAVC_QRSWAVE")
             THEN (IF param = "value" THEN "R" \o x ELSE "Q" \o x)
        ELSE IF AnyCodeIs(ann, "MDC_ECG_WAVC_RWAVE") THEN "R" \o x
        ELSE IF AnyCodeIs(ann, "MDC_ECG_WAVC_TWAVE") THEN "T" \o x
        ELSE IF generic /\ ComponentIs(ann, "MDC_ECG_WAVC_PRSEG")
             THEN (IF param = "low" THEN "P" \o x ELSE IF param = "high" THEN "QON" ELSE "")
        ELSE IF generic /\ ComponentIs(ann, "MDC_ECG_WAVC_QRSTWAVE")
             THEN (IF param = "low" THEN "Q" \o x ELSE "T" \o x)
        ELSE IF /\ ann.codetype = "MDC_ECG_WAVC_QRSTWAVE"
                /\ ann.wavecomponent = "MDC_ECG_WAVC_QRSTWAVE"
                /\ ann.wavecomponent2 = ""
             THEN (IF param = "low" THEN "Q" \o x
                   ELSE IF param = "high" THEN "T" \o x ELSE "")
        ELSE IF ann.codetype = "MDC_ECG_WAVC_QWAVE" /\ ComponentIs(ann, "MDC_ECG_WAVC_QWAVE")
             THEN "Q" \o x
        ELSE IF generic /\ ComponentIs(ann, "MDC_ECG_WAVC_QSWAVE") THEN "Q" \o x
        ELSE IF ann.codetype = "MDC_ECG_WAVC_SWAVE" /\ ComponentIs(ann, "MDC_ECG_WAVC_PEAK")
             THEN "S" \o x
        ELSE IF ann.codetype = "MDC_ECG_WAVC_STJ" /\ ComponentIs(ann, "MDC_ECG_WAVC_PEAK")
             THEN "QOFF"
        ELSE Unstated

\* C11 (as stated): for every combination of the three codes and every
\* slot, the label that anns_to_ms assigns is the label of the first of
\* rules 1 to 11 that matches.
C11_LabelFollowsRuleList ==
    (pc = "labelled" /\ RuleLabel(call.ann, call.param) # Unstated) =>
        ret = Label(RuleLabel(call.ann, call.param))

\* C11 (amended): the label that anns_to_ms assigns is the label of the
\* first matching rule once rule 8 also requires the Q-wave code type,
\* rules 10 and 11 accept PEAK in either component and the value slot is
\* spelled out for rules 5 to 9.
C11_LabelFollowsCodeOrder ==
    (pc = "labelled" /\ RuleLabelByCodeType(call.ann, call.param) # Unstated) =>
        ret = Label(RuleLabelByCodeType(call.ann, call.param))

\* Rule 8 on a low slot whose secondary component is PEAK: the suffix is forced
C11_Witness ==
    /\ pc = "labelled"
    /\ RuleLabelByCodeType(call.ann, call.param) # Unstated
    /\ call.param = "low"
    /\ ret = Label("QPEAK")
    /\ call.ann.codetype = "MDC_ECG_WAVC_QWAVE"

(* -------------------- properties of parse_hl7_datetime ----------------- *)
\* The component of a string of digits at [a:b], or its minimum when the
\* string ends before it
PartOr(d, a, b, min) == IF Len(d) >= b THEN IntOf(Slice(d, a, b)) ELSE min

\* The timestamp that a string of 4, 6, 8, 10, 12 or 14 digits denotes
Denoted(d) ==
    DateTime(PartOr(d, 0, 4, 1), PartOr(d, 4, 6, 1), PartOr(d, 6, 8, 1),
             PartOr(d, 8, 10, 0), PartOr(d, 10, 12, 0), PartOr(d, 12, 14, 0), 0)

InCalendar(t) ==
    /\ t.year >= 1 /\ t.month \in 1..12
    /\ t.day >= 1 /\ t.day <= DaysInMonth(t.year, t.month)
    /\ t.hour \in 0..23 /\ t.minute \in 0..59 /\ t.second \in 0..59

\* C14: parse_hl7_datetime accepts a timestamp at each of the precisions
\* YYYY, YYYYMM, YYYYMMDD, YYYYMMDDHH, YYYYMMDDHHMM and YYYYMMDDHHMMSS and
\* returns the timestamp whose present components are the digits given and
\* whose absent components take their minimum.
C14_EveryPrecisionParses ==
    (/\ pc = "parsed"
     /\ Len(call.hl7time) \in {4, 6, 8, 10, 12, 14}
     /\ AllDigits(call.hl7time)
     /\ InCalendar(Denoted(call.hl7time)))
    => ret = Denoted(call.hl7time)

(* ------------------- properties of the time projection ----------------- *)
\* The label of the slots of the QRS wave annotations of the model
SlotLabel(param) ==
    CASE param = "value" -> "RPEAK" [] param = "low" -> "QON" [] param = "high" -> "QOFF"

\* The times of the rows that the result holds for slot param of annotation i
ResultTimes(i, param) ==
    {ret[k].TIME.us : k \in {j \in DOMAIN ret :
                               /\ ret[j].ANNGRPID = call.ecganns[i].anngrpid
                               /\ ret[j].ECGLIBANNTYPE = SlotLabel(param)}}

\* A filled slot of an annotation tagged TIME_ABSOLUTE whose value is no HL7 datetime
MislabelledSlot(i, param) ==
    /\ call.ecganns[i].timecode = "TIME_ABSOLUTE"
    /\ call.ecganns[i][param] # << >>
    /\ parse_hl7_datetime(call.ecganns[i][param]).raised

UnitInUs(unit) ==
    CASE unit = "ms" -> 1000 [] unit = "us" -> 1 [] unit = "s" -> 1000000 [] OTHER -> 0

\* C12: a value tagged TIME_ABSOLUTE that is no HL7 datetime is read as a
\* relative number in its declared unit; when that fails too (no number, or
\* an unknown unit) the boundary is dropped and the projection of the other
\* boundaries completes without raising.
C12_MislabelledAbsoluteNeverRaises ==
    /\ pc = "raised" => ~MislabelledSlot(local.i, SlotNames[local.p])
    /\ pc = "projected" =>
          \A i \in DOMAIN call.ecganns : \A param \in Slots :
              MislabelledSlot(i, param) =>
                  LET text == call.ecganns[i][param]
                      unit == call.ecganns[i][param \o "_unit"]
                  IN  ResultTimes(i, param) =
                          IF AllDigits(text) /\ UnitInUs(unit) # 0
                          THEN {IntOf(text) * UnitInUs(unit)} ELSE {}

(* --------------------- properties of lead_values_mv -------------------- *)
\* C13: lead_values_mv returns digit * scale + origin in mV for every
\* origin unit and scale unit of uV, mV, V and nV, and fails with
\* UnknownUnitsError, returning nothing, for any other unit.
C13_ConvertsOrUnknownUnit ==
    pc = "converted" =>
        LET lead == call.aecglead
        IN  IF lead.origin_unit \in {"uV", "mV", "V", "nV"}
               /\ lead.scale_unit \in {"uV", "mV", "V", "nV"}
            THEN ret = Values([k \in DOMAIN lead.digits |->
                        LET o == InMilliVolt(lead.origin, lead.origin_unit)
                            x == InMilliVolt(lead.scale, lead.scale_unit)
                        IN  Volt(lead.digits[k] * x.mV + o.mV, lead.digits[k] * x.nV + o.nV)])
            ELSE ret = Raised("UnknownUnitsError")

(* ---------------- properties of a failure during the scan -------------- *)
\* C15: a failure while deriving the intervals of one lead does not
\* prevent deriving those of the other leads: when the scan fails on a row,
\* every interval derived from the boundaries of another lead is still
\* among the intervals produced.
C15_FailureIsLeadScoped ==
    pc = "raised" /\ has_columns =>
        \A k \in DOMAIN tmp : \A p \in {"RR", "PR", "QRS", "QT", "QTRR", "QTCF"} :
            (tmp[k].LEADNAM # tmp[idx].LEADNAM /\ ~isnan(tmp[k][p])) =>
                \E j \in DOMAIN intervals :
                    /\ intervals[j].LEADNAM = tmp[k].LEADNAM
                    /\ intervals[j].PARAMCD = p
                    /\ intervals[j].AVAL = tmp[k][p]

(* ---------------------- properties of index_directory ------------------ *)
\* The files whose result has been collected
Processed == {studyindex[k][1].AECGXML : k \in DOMAIN studyindex}

\* C16: whichever files fail, all of them included, index_directory returns
\* normally and its index holds at least one row for each processed file,
\* with a non-empty ERROR on the rows of the files that failed.
C16_BatchSurvivesFailures ==
    /\ pc = "raised" => call.aecg_files = << >>
    /\ pc = "indexed" =>
          \A f \in Processed :
              /\ \E j \in DOMAIN ret : ret[j].AECGXML = f
              /\ call.aecg_files[f].outcome # "indexed" =>
                    \A j \in DOMAIN ret : ret[j].AECGXML = f => ret[j].ERROR # ""

\* After the flag has been observed nothing more is launched or collected
Quiescent ==
    pc \in {"concat", "indexed", "raised"} => studyindex' = studyindex /\ pool' = pool

\* C17: in both modes, once cancel_indexing is observed after a result has
\* been collected, no further per-file work is launched or collected, and
\* every derivation in flight at that moment runs to completion.
C17_InFlightRunsToCompletion ==
    /\ [][Quiescent]_vars
    /\ [](\A k \in DOMAIN pool : pool[k] # "terminated")

(* ----------------------- properties of read_aecg ----------------------- *)
\* What the call names: the content of the file or of the member of the zip
\* container, None when the container or the file is missing or is no zip
Source ==
    IF call.zip_container = ""
    THEN (IF call.xml_filename \in DOMAIN Disk THEN Disk[call.xml_filename] ELSE None)
    ELSE IF call.zip_container \notin DOMAIN ZipFiles THEN None
         ELSE IF call.xml_filename \in DOMAIN ZipFiles[call.zip_container]
              THEN ZipFiles[call.zip_container][call.xml_filename] ELSE None

OpenedAndParsed == Source \in WellFormed

\* C18: read_aecg does not raise when the source is missing or unreadable,
\* and the Aecg that it returns carries the file name and the zip container
\* of the call, with xmlfound true exactly when the XML document was opened
\* and parsed.
C18_ReadReturnsForEverySource ==
    /\ pc = "raised" => OpenedAndParsed
    /\ pc = "returned" =>
          /\ ret.filename = call.xml_filename
          /\ ret.zipContainer = call.zip_container
          /\ ret.xmlfound <=> OpenedAndParsed

\* The zip container opens but does not hold the file
C18_Witness ==
    /\ pc = "returned"
    /\ call.zip_container = "ecgs.zip" /\ call.xml_filename = "missing.xml"
    /\ ~ret.xmlfound

SchemaSupplied == call.aecg_schema_filename \notin {None, ""}

SchemaIsValid ==
    /\ call.aecg_schema_filename \in DOMAIN Disk
    /\ Disk[call.aecg_schema_filename] = "schema"

\* C19: after read_aecg, isValid is "Y" exactly when a schema was supplied,
\* is a valid schema and the document validates against it, "N" exactly when
\* the schema is valid and the document that was found does not validate,
\* and "" in every other case.
C19_IsValidFollowsSchema ==
    pc = "returned" =>
        /\ ret.isValid = "Y" <=>
              SchemaSupplied /\ SchemaIsValid /\ Source = "valid"
        /\ ret.isValid = "N" <=>
              SchemaSupplied /\ SchemaIsValid /\ OpenedAndParsed /\ Source # "valid"
        /\ ret.isValid \in {"Y", "N", ""}

\* A document that was found and a schema file that is XML but no schema
C19_Witness ==
    /\ pc = "returned"
    /\ ret.xmlfound
    /\ call.aecg_schema_filename = "notschema.xsd"
    /\ ret.isValid = ""

(* ------------------ properties of subject_age_in_years ----------------- *)
\* An attribute that holds the eight digits of a day of the calendar
ValidDate(d) == Len(d) = 8 /\ AllDigits(d) /\ InCalendar(Denoted(d))

\* Whole years from the day born to the day ecg: the difference of the years,
\* less one when the month and day of ecg come before those of born
WholeYears(born, ecg) ==
    IF \/ ecg.month < born.month
       \/ ecg.month = born.month /\ ecg.day < born.day
    THEN ecg.year - born.year - 1 ELSE ecg.year - born.year

\* C20: subject_age_in_years returns the whole years between BIRTHTIME and
\* the first non-empty of EGDTC low, center and high; it returns -1 only if
\* one of the two is missing or is no date, and for two valid dates the age
\* is not negative.
C20_AgeOfValidDates ==
    (/\ pc = "aged"
     /\ ValidDate(call.aecg.BIRTHTIME)
     /\ ValidDate(FirstEgdtc(call.aecg.EGDTC)))
    => /\ ret = WholeYears(Denoted(call.aecg.BIRTHTIME),
                           Denoted(FirstEgdtc(call.aecg.EGDTC)))
       /\ ret >= 0

(* ------------- properties of the scan: beats, leads, RR values --------- *)
\* Row k is a T offset without QRS onset on its own lead, and the table
\* holds GLOBAL QRS onsets, none of them before it
OnlyLaterGlobalQons(k) ==
    /\ IsType(k, "TOFF")
    /\ ~LocalQonBefore(k)
    /\ TimesOf("GLOBAL", "QON") # {}
    /\ \A q \in TimesOf("GLOBAL", "QON") : q >= Stream[k].TIME

\* C21: a T offset without QRS onset on its own lead, with GLOBAL QRS onsets
\* that all lie at or after it, does not make the derivation fail: the scan
\* goes past it and its QT stays undefined.
C21_LaterGlobalQonsLeaveQTUndefined ==
    \A k \in DOMAIN Stream :
        OnlyLaterGlobalQons(k) =>
            /\ ~(pc = "raised" /\ idx = k)
            /\ pc = "returned" => isnan(tmp[k].QT)

\* The value that a local variable holds once the reset of a new lead has
\* been applied for the row at idx
AfterReset(x) == IF current_lead # tmp[idx].LEADNAM THEN NaN ELSE x

\* The scan is at a row of kind anntype
Scanning(anntype) ==
    pc = "loop" /\ idx <= Len(tmp) /\ tmp[idx].ECGLIBANNTYPE = anntype

\* The step starts a beat at the row at idx, as a QRS onset does
StartsBeat ==
    /\ last_qon' = F(tmp[idx].TIME)
    /\ tmp' = [tmp EXCEPT ![idx].PR = Sub(F(tmp[idx].TIME), AfterReset(last_pon))]
    /\ last_pon' = NaN /\ last_qoff' = NaN /\ last_toff' = NaN /\ last_qt' = NaN
    /\ preceeding_R' = AfterReset(preceeding_R) /\ current_R' = AfterReset(current_R)
    /\ last_rr' = AfterReset(last_rr)

RonStep ==
    Scanning("RON") =>
        IF \/ isnan(AfterReset(last_qon))
           \/ tmp[idx].TIME - last_qon.v > RonRefractoryMs
        THEN StartsBeat
        ELSE /\ UNCHANGED << locals, tmp >>
             /\ pc' = "loop"

QonStep == Scanning("QON") => StartsBeat

\* C22: an R onset starts a beat exactly as a QRS onset does (last_qon set,
\* PR emitted, last_pon, last_qoff, last_toff and last_qt cleared) if and
\* only if last_qon is undefined or the R onset lies more than 400 ms after
\* it; an R onset at most 400 ms after the current QRS onset changes no
\* state and emits nothing.
C22_RonStartsBeatOutsideRefractory == [][RonStep /\ QonStep]_vars

\* An R onset exactly 400 ms after the QRS onset, with a P onset in between,
\* has been scanned and has no PR
C22_Witness ==
    /\ pc = "returned"
    /\ \E j, k, m \in DOMAIN Stream :
          /\ j < m /\ m < k
          /\ IsType(j, "QON") /\ IsType(m, "PON") /\ IsType(k, "RON")
          /\ Stream[k].TIME - Stream[j].TIME = RonRefractoryMs
          /\ isnan(tmp[k].PR)

\* Rows j and k of the stream s belong to the same lead and no T offset lies
\* between them
SameBeatSpan(s, j, k) ==
    /\ j < k
    /\ s[j].LEADNAM = s[k].LEADNAM
    /\ \A m \in (j + 1)..(k - 1) : s[m].ECGLIBANNTYPE # "TOFF"

\* Row k of the stream s starts a beat: a QRS onset, or an R onset that no
\* beat start of the running beat precedes by 400 ms or less
RECURSIVE BeatStart(_, _)
BeatStart(s, k) ==
    \/ s[k].ECGLIBANNTYPE = "QON"
    \/ /\ s[k].ECGLIBANNTYPE = "RON"
       /\ LET S == {j \in 1..(k - 1) : SameBeatSpan(s, j, k) /\ BeatStart(s, j)}
          IN  S = {} \/ s[k].TIME - s[SetMax(S)].TIME > RonRefractoryMs

\* The P onsets that the scan still holds when it reaches row k of s: those
\* of the lead of k since the last beat start (the rows of starts) or T offset
PendingPons(s, k, starts) ==
    {p \in 1..(k - 1) :
        /\ s[p].ECGLIBANNTYPE = "PON"
        /\ SameBeatSpan(s, p, k)
        /\ \A m \in (p + 1)..(k - 1) : m \notin starts}

\* C23: the boundaries of a beat clear its state. A QRS offset or J point
\* that follows a T offset of its lead with no beat start in between has no
\* QRS, and a PR is only ever taken from a P onset that no beat start or
\* T offset separates from it, so that no P onset enters two PR values.
C23_BeatBoundariesClearState ==
    pc = "returned" =>
        LET s == Stream
            starts == {k \in DOMAIN s : BeatStart(s, k)}
            pons == [k \in DOMAIN s |-> PendingPons(s, k, starts)]
        IN  /\ \A k \in DOMAIN s :
                  (/\ s[k].ECGLIBANNTYPE \in {"QOFF", "STJPEAK"}
                   /\ \E j \in 1..(k - 1) :
                         /\ s[j].ECGLIBANNTYPE = "TOFF"
                         /\ s[j].LEADNAM = s[k].LEADNAM
                         /\ \A m \in (j + 1)..(k - 1) : m \notin starts)
                  => isnan(tmp[k].QRS)
            /\ \A k \in DOMAIN s :
                  IF k \in starts /\ pons[k] # {}
                  THEN tmp[k].PR = F(s[k].TIME - s[SetMax(pons[k])].TIME)
                  ELSE isnan(tmp[k].PR)
            /\ \A j, k \in DOMAIN s :
                  (j # k /\ ~isnan(tmp[j].PR) /\ ~isnan(tmp[k].PR))
                  => pons[j] \cap pons[k] = {}

\* A P onset gave a PR, and neither the next beat start of the lead nor the
\* QRS offset behind its T offset take anything from the finished beat
C23_Witness ==
    /\ pc = "returned"
    /\ \E p, q, t, k \in DOMAIN Stream :
          /\ p < q /\ q < t /\ t < k
          /\ IsType(p, "PON") /\ IsType(q, "QON") /\ IsType(t, "TOFF")
          /\ IsType(k, "QOFF")
          /\ ~isnan(tmp[q].PR) /\ isnan(tmp[k].QRS)

\* What a local variable holds after the first row of a lead has been
\* scanned: the time of that row if the row is of one of the kinds, nan if not
FromFirstRow(kinds) ==
    IF tmp[idx].ECGLIBANNTYPE \in kinds THEN F(tmp[idx].TIME) ELSE NaN

\* A step that scans a row of another lead than the row before it leaves
\* nothing of the earlier lead in the local variables
LeadChangeStep ==
    (pc = "loop" /\ idx <= Len(tmp) /\ current_lead # tmp[idx].LEADNAM /\ pc' = "loop") =>
        /\ current_lead' = tmp[idx].LEADNAM
        /\ preceeding_R' = NaN /\ last_rr' = NaN
        /\ current_R' = FromFirstRow({"RPEAK"})
        /\ last_pon' = FromFirstRow({"PON"})
        /\ last_qon' = FromFirstRow({"QON", "RON"})
        /\ last_qoff' = FromFirstRow({"QOFF", "STJPEAK"})
        /\ last_toff' = NaN
        /\ tmp[idx].ECGLIBANNTYPE # "TOFF" => last_qt' = NaN

\* Row k carries a value of parameter p that is the time of row k less the
\* time of an earlier row of the same lead, of one of the kinds
DifferenceWithinLead(s, k, p, kinds) ==
    ~isnan(tmp[k][p]) =>
        \E j \in 1..(k - 1) :
            /\ s[j].LEADNAM = s[k].LEADNAM
            /\ s[j].ECGLIBANNTYPE \in kinds
            /\ tmp[k][p] = F(s[k].TIME - s[j].TIME)

WithinLead ==
    pc = "returned" =>
        LET s == Stream IN
        \A k \in DOMAIN s :
            /\ DifferenceWithinLead(s, k, "RR", {"RPEAK"})
            /\ DifferenceWithinLead(s, k, "PR", {"PON"})
            /\ DifferenceWithinLead(s, k, "QRS", {"QON", "RON"})
            /\ (/\ s[k].ECGLIBANNTYPE = "RPEAK"
                /\ \A j \in 1..(k - 1) :
                      s[j].LEADNAM = s[k].LEADNAM => s[j].ECGLIBANNTYPE # "RPEAK")
               => isnan(tmp[k].RR)

\* C24: the state of the scan is reset to undefined whenever the lead
\* changes in the sorted stream, so every RR, PR and QRS is the difference of
\* two boundaries of one lead and the first R peak of a lead has no RR.
C24_StateIsLeadScoped == [][LeadChangeStep]_vars /\ []WithinLead

\* The scan has passed from the R peaks of the GLOBAL lead to the first row
\* of lead II, and holds no R peak
C24_Witness ==
    /\ pc = "loop"
    /\ idx > 2
    /\ current_lead = "II"
    /\ tmp[idx - 1].LEADNAM = "II" /\ tmp[idx - 2].LEADNAM = "GLOBAL"
    /\ tmp[idx - 2].ECGLIBANNTYPE = "RPEAK"
    /\ isnan(current_R) /\ isnan(preceeding_R) /\ isnan(last_rr)

(* ------------- properties of the fallback of the classification -------- *)
\* None of rules 1 to 11 of the rule list matches the codes of the annotation
NoRuleMatches(ann) ==
    /\ \A c \in {"MDC_ECG_WAVC_PWAVE", "MDC_ECG_WAVC_QRSWAVE",
                 "MDC_ECG_WAVC_RWAVE", "MDC_ECG_WAVC_TWAVE"} : ~AnyCodeIs(ann, c)
    /\ ann.codetype = "MDC_ECG_WAVC_TYPE" =>
          \A c \in {"MDC_ECG_WAVC_PRSEG", "MDC_ECG_WAVC_QRSTWAVE", "MDC_ECG_WAVC_QSWAVE"} :
              ~ComponentIs(ann, c)
    /\ ~(/\ ann.codetype = "MDC_ECG_WAVC_QRSTWAVE"
         /\ ann.wavecomponent = "MDC_ECG_WAVC_QRSTWAVE"
         /\ ann.wavecomponent2 = "")
    /\ ~ComponentIs(ann, "MDC_ECG_WAVC_QWAVE")
    /\ ann.codetype \in {"MDC_ECG_WAVC_SWAVE", "MDC_ECG_WAVC_STJ"} =>
          ~ComponentIs(ann, "MDC_ECG_WAVC_PEAK")

\* C25: when none of rules 1 to 11 matches the codes of an annotation that
\* has a code type and a wave component, the fallback always yields a label
\* and never fails, the case of a generic wave component with an empty
\* secondary component included.
C25_FallbackNeverFails ==
    (/\ pc = "labelled"
     /\ NoRuleMatches(call.ann)
     /\ call.ann.wavecomponent # "" /\ call.ann.codetype # "") => ~ret.raised

(* ------------- properties of the anchor of the time projection --------- *)
\* The value slot of annotation i holds an HL7 datetime tagged TIME_ABSOLUTE,
\* and the call gives no start time of its own to the lead of the annotation
AbsoluteOnWaveformClock(i) ==
    /\ call.ecganns[i].timecode = "TIME_ABSOLUTE"
    /\ call.ecganns[i].value # << >>
    /\ ~parse_hl7_datetime(call.ecganns[i].value).raised
    /\ ~parse_hl7_datetime(call.start_time).raised
    /\ \A k \in DOMAIN call.leads_start_times :
          call.leads_start_times[k].leadname # call.ecganns[i].lead

\* C26: the projected time of an ABSOLUTE annotation is its timestamp less
\* the start time of the waveform passed to the call, whichever annotations
\* of other leads were processed before it.
C26_AnchoredAtWaveformStart ==
    pc = "projected" =>
        \A i \in DOMAIN call.ecganns :
            AbsoluteOnWaveformClock(i) =>
                ResultTimes(i, "value") =
                    {total_us(parse_hl7_datetime(call.ecganns[i].value),
                              parse_hl7_datetime(call.start_time))}

(* ------------- properties of the collection of the results ------------- *)
\* The rows of a table as a multiset: how often each row occurs
RowCounts(rows) ==
    [r \in {rows[k] : k \in DOMAIN rows} |->
        Cardinality({k \in DOMAIN rows : rows[k] = r})]

\* The rows of the files of the call, file after file
RowsInFileOrder ==
    Concat([k \in DOMAIN call.aecg_files |-> index_study_xml_file(call.aecg_files, k)])

\* The loops are over and the flag was never set: one result per file
OneResultPerFile ==
    (pc = "concat" /\ ~cancel_indexing) =>
        /\ Len(studyindex) = Len(call.aecg_files)
        /\ \A f \in DOMAIN call.aecg_files :
              Cardinality({k \in DOMAIN studyindex : studyindex[k][1].AECGXML = f}) = 1

\* The index returned after such loops holds the rows of the files
SameRowsInAnyOrder ==
    (pc = "concat" /\ ~cancel_indexing /\ pc' = "indexed") =>
        RowCounts(ret') = RowCounts(RowsInFileOrder)

\* C27: without cancellation exactly one result is collected for each file,
\* and the returned index holds the same multiset of rows whatever the order
\* in which the results complete, one after the other or in the pool.
C27_OneResultPerFileInAnyOrder == []OneResultPerFile /\ [][SameRowsInAnyOrder]_vars

\* The pool completed the second file before the first, and the index was
\* returned
C27_Witness ==
    /\ pc = "indexed"
    /\ Len(call.aecg_files) >= 2
    /\ \A k \in DOMAIN pool : pool[k] = "collected"
    /\ studyindex[1][1].AECGXML = 2
    /\ Len(ret) = Len(call.aecg_files)

\* C28: every RR and every QTRR that the scan emits is strictly positive,
\* an R peak that does not lie after the current R peak of its lead being
\* ignored, so that no QTCF is computed with a divisor of zero.
C28_PositiveRR ==
    /\ ~isnan(last_rr) => last_rr.v > 0
    /\ \A k \in DOMAIN tmp : \A p \in {"RR", "QTRR"} :
          ~isnan(tmp[k][p]) => tmp[k][p].v > 0
    /\ \A k \in DOMAIN intervals :
          intervals[k].PARAMCD \in {"RR", "QTRR"} => intervals[k].AVAL.v > 0
    /\ \A k \in DOMAIN tmp :
          ~isnan(tmp[k].QTCF) => ~isnan(tmp[k].QTRR) /\ tmp[k].QTRR.v > 0

\* Two R peaks of a lead at the same time: the second one was ignored
C28_Witness ==
    /\ pc = "returned"
    /\ \E j, k \in DOMAIN Stream :
          /\ j < k
          /\ IsType(j, "RPEAK") /\ IsType(k, "RPEAK")
          /\ Stream[j].LEADNAM = Stream[k].LEADNAM
          /\ Stream[j].TIME = Stream[k].TIME
          /\ isnan(tmp[k].RR)
          /\ current_R = F(Stream[j].TIME) /\ isnan(preceeding_R)

(* ------------------- properties of the display names ------------------- *)
\* C29: every lead code of STD_LEADS resolves to a display name: neither
\* AecgLead.display_name nor the lookup of anns_to_ms raises for it.
C29_EveryStdLeadHasDisplayName ==
    pc = "raised" => ~InStdLeads(call.leads[local.i])

(* ------------------ properties of the READFILE rows -------------------- *)
\* The rows with the given PARAM among those recorded in the Aecg returned
ReadfileRows(param) == SelectSeq(ret.validatorResults, LAMBDA row : row.PARAM = param)

\* The call names a zip container and the container opens
ContainerOpened == call.zip_container # "" /\ call.zip_container \in DOMAIN ZipFiles

\* C30: with log_validation, whenever the zip container could be opened,
\* read_aecg records exactly one READFILE/FILENAME row, and that row is
\* PASSED only if the XML document was parsed (xmlfound is true on return).
C30_OneFilenameRowPerRead ==
    (pc = "returned" /\ call.log_validation /\ ContainerOpened) =>
        /\ Len(ReadfileRows("FILENAME")) = 1
        /\ ReadfileRows("FILENAME")[1].VALIOUT = "PASSED" => ret.xmlfound

====
